---- MODULE Spec2Model ----
(***************************************************************************)
(* Model of the Babbage mapper of oura: the converters of                  *)
(* src/mapper/babbage.rs, src/mapper/map.rs and src/mapper/collect.rs and  *)
(* the crawl that turns one decoded block into an ordered stream of        *)
(* events.  A crawl is a run of the state machine: the block and the       *)
(* mapper configuration are fixed in Init, every action is one call of the *)
(* crawl and appends its events to `output`.                               *)
(***************************************************************************)
EXTENDS Integers, Sequences, FiniteSets, TLC

(***************************************************************************)
(* Bounds of the input space.                                              *)
(***************************************************************************)
\* longest list (inputs, outputs, certificates, witnesses, ...) of a transaction
MaxList == 2
\* largest number of transactions of a block
MaxTxs == 2

\* the number of times a converter is called on the same block
MaxCalls == 2

\* the number of events of the stream handed to the sink
MaxEvents == 3

(***************************************************************************)
(* Option and Result values.                                               *)
(***************************************************************************)
None == <<>>

Some(x) == <<x>>

IsSome(o) == o # None

Unwrap(o) == o[1]

Ok(v) == [status |-> "ok", val |-> v]

Failure(s) == [status |-> s]

\* Iterator::map(..).collect::<Result<Vec<_>, _>>(): the first element that
\* does not convert decides the result, later elements are never looked at.
CollectResults(rs) ==
    LET bad == {i \in 1..Len(rs) : rs[i].status # "ok"}
    IN  IF bad = {}
        THEN Ok([i \in 1..Len(rs) |-> rs[i].val])
        ELSE Failure(rs[CHOOSE i \in bad : \A j \in bad : i <= j].status)

\* Option<Vec<T>> mapped by an infallible conversion of its elements
MapSeq(s, F(_)) == [i \in 1..Len(s) |-> F(s[i])]

RECURSIVE Flatten(_)
Flatten(ss) == IF ss = <<>> THEN <<>> ELSE Head(ss) \o Flatten(Tail(ss))

RECURSIVE SumSeq(_)
SumSeq(s) == IF s = <<>> THEN 0 ELSE Head(s) + SumSeq(Tail(s))

\* Sequential composition of crawl steps joined by `?`: the events of every
\* step up to and including the first one that fails, and its status.
Chain(rs) ==
    LET bad == {i \in 1..Len(rs) : rs[i].status # "ok"}
        n   == IF bad = {} THEN Len(rs) ELSE CHOOSE i \in bad : \A j \in bad : i <= j
    IN  [events |-> Flatten([i \in 1..n |-> rs[i].events]),
         status |-> IF bad = {} THEN "ok" ELSE rs[n].status]

NoEvents == [events |-> <<>>, status |-> "ok"]

(***************************************************************************)
(* Renderings supplied by the decoding library.  None is the identity: a   *)
(* rendered value is tagged with the rendering that produced it.           *)
(***************************************************************************)
ToHex(x) == <<"hex", x>>

OriginalHash(x) == <<"hash", x.id>>

ComputeHash(x) == <<"script_hash", x>>

ToJson(x) == <<"json", x>>

\* Address::from_bytes followed by to_string
AddressFromBytes(bytes) ==
    IF bytes.ok THEN Ok(<<"addr", bytes.id>>) ELSE Failure("err")

(***************************************************************************)
(* map.rs: converters of single entities.                                  *)
(***************************************************************************)
\* metadatum_to_string_key with the debug form of a key of another shape
metadatum_to_string_key_debug(datum) ==
    CASE datum.tag = "Int"   -> <<"decimal", datum.v>>
      [] datum.tag = "Bytes" -> ToHex(datum.v)
      [] datum.tag = "Text"  -> <<"text", datum.v>>
      [] OTHER               -> <<"text", datum.tag>>

metadatum_to_string_key(datum) ==
    CASE datum.tag = "Int"   -> <<"decimal", datum.v>>
      [] datum.tag = "Bytes" -> ToHex(datum.v)
      [] datum.tag = "Text"  -> <<"text", datum.v>>
      [] OTHER               -> <<"text", "">>

get_tx_output_coin_value(amount) == amount.coin

RECURSIVE to_metadatum_json(_)
to_metadatum_json(source) ==
    CASE source.tag = "Int"   -> Ok(<<"json_int", source.v>>)
      [] source.tag = "Bytes" -> Ok(<<"json_str", ToHex(source.v)>>)
      [] source.tag = "Text"  -> Ok(<<"json_str", source.v>>)
      [] source.tag = "Array" ->
            LET items == CollectResults(
                    [i \in 1..Len(source.items) |-> to_metadatum_json(source.items[i])])
            IN  IF items.status = "ok" THEN Ok(<<"json_array", items.val>>) ELSE items
      [] source.tag = "Map" ->
            LET n       == Len(source.entries)
                values  == CollectResults(
                    [i \in 1..n |-> to_metadatum_json(source.entries[i][2])])
                keyOf(i) == metadatum_to_string_key(source.entries[i][1])
                keys    == {keyOf(i) : i \in 1..n}
                \* HashMap::from_iter: a later entry replaces an earlier one
                last(k) == CHOOSE i \in 1..n :
                              /\ keyOf(i) = k
                              /\ \A j \in 1..n : keyOf(j) = k => j <= i
            IN  IF values.status = "ok"
                THEN Ok(<<"json_map", [k \in keys |-> values.val[last(k)]]>>)
                ELSE values

to_metadata_record(label, value) ==
    LET json == to_metadatum_json(value)
    IN  CASE value.tag = "Int" ->
                Ok([label |-> <<"decimal", label>>, content |-> <<"IntScalar", value.v>>])
          [] value.tag = "Bytes" ->
                Ok([label |-> <<"decimal", label>>, content |-> <<"BytesHex", ToHex(value.v)>>])
          [] value.tag = "Text" ->
                Ok([label |-> <<"decimal", label>>, content |-> <<"TextScalar", value.v>>])
          [] value.tag = "Array" ->
                IF json.status = "ok"
                THEN Ok([label |-> <<"decimal", label>>, content |-> <<"ArrayJson", json.val>>])
                ELSE json
          [] value.tag = "Map" ->
                IF json.status = "ok"
                THEN Ok([label |-> <<"decimal", label>>, content |-> <<"MapJson", json.val>>])
                ELSE json

to_transaction_input_record(input) ==
    [tx_id |-> ToHex(input.transaction_id), index |-> input.index]

to_transaction_output_asset_record(policy, asset, amount) ==
    [policy      |-> ToHex(policy),
     asset       |-> ToHex(asset.bytes),
     asset_ascii |-> IF asset.utf8 THEN Some(<<"utf8", asset.bytes>>) ELSE None,
     amount      |-> amount]

to_mint_record(policy, asset, quantity) ==
    [policy |-> ToHex(policy), asset |-> ToHex(asset.bytes), quantity |-> quantity]

to_plutus_datum_record(datum) ==
    Ok([datum_hash |-> ToHex(OriginalHash(datum)), plutus_data |-> ToJson(datum)])

to_plutus_redeemer_record(redeemer) ==
    Ok([purpose        |-> redeemer.tag,
        ex_units_mem   |-> redeemer.ex_units.mem,
        ex_units_steps |-> redeemer.ex_units.steps,
        input_idx      |-> redeemer.index,
        plutus_data    |-> ToJson(redeemer.data)])

to_plutus_v1_witness_record(script) ==
    Ok([script_hash |-> ToHex(ComputeHash(script)), script_hex |-> ToHex(script)])

to_native_witness_record(script) ==
    Ok([policy_id |-> ToHex(ComputeHash(script)), script_json |-> ToJson(script)])

to_vkey_witness_record(witness) ==
    Ok([vkey_hex |-> ToHex(witness.vkey), signature_hex |-> ToHex(witness.signature)])

to_script_ref_record(script_ref) ==
    IF script_ref.variant = "NativeScript"
    THEN Ok([variant     |-> "NativeScript",
             policy_id   |-> ToHex(ComputeHash(script_ref.script)),
             script_json |-> ToJson(script_ref.script)])
    ELSE Ok([variant     |-> script_ref.variant,
             script_hash |-> ToHex(ComputeHash(script_ref.script)),
             script_hex  |-> ToHex(script_ref.script)])

to_aux_native_script_event(script) ==
    [kind |-> "NativeScript",
     record |-> [policy_id |-> ToHex(ComputeHash(script)), script |-> ToJson(script)]]

to_aux_plutus_script_event(script) ==
    [kind |-> "PlutusScript",
     record |-> [hash |-> ToHex(ComputeHash(script)), data |-> ToHex(script)]]

StakeCredentialFrom(credential) == [tag |-> credential.tag, hash |-> ToHex(credential.hash)]

\* to_certificate_record with from_treasury set whenever a target pot is named
to_certificate_record_treasury_by_target(certificate) ==
    CASE certificate.tag = "StakeRegistration" ->
            [kind |-> "StakeRegistration",
             record |-> [credential |-> StakeCredentialFrom(certificate.credential)]]
      [] certificate.tag = "StakeDeregistration" ->
            [kind |-> "StakeDeregistration",
             record |-> [credential |-> StakeCredentialFrom(certificate.credential)]]
      [] certificate.tag = "StakeDelegation" ->
            [kind |-> "StakeDelegation",
             record |-> [credential |-> StakeCredentialFrom(certificate.credential),
                         pool_hash  |-> ToHex(certificate.pool)]]
      [] certificate.tag = "PoolRetirement" ->
            [kind |-> "PoolRetirement",
             record |-> [pool |-> ToHex(certificate.pool), epoch |-> certificate.epoch]]
      [] certificate.tag = "MoveInstantaneousRewardsCert" ->
            [kind |-> "MoveInstantaneousRewardsCert",
             record |->
                [from_reserves |-> certificate.source = "Reserves",
                 from_treasury |-> certificate.target.tag = "OtherAccountingPot",
                 to_stake_credentials |->
                    IF certificate.target.tag = "StakeCredentials"
                    THEN Some([i \in 1..Len(certificate.target.creds) |->
                                <<StakeCredentialFrom(certificate.target.creds[i][1]),
                                  certificate.target.creds[i][2]>>])
                    ELSE None,
                 to_other_pot |->
                    IF certificate.target.tag = "OtherAccountingPot"
                    THEN Some(certificate.target.coin)
                    ELSE None]]

to_certificate_record(certificate) ==
    CASE certificate.tag = "StakeRegistration" ->
            [kind |-> "StakeRegistration",
             record |-> [credential |-> StakeCredentialFrom(certificate.credential)]]
      [] certificate.tag = "StakeDeregistration" ->
            [kind |-> "StakeDeregistration",
             record |-> [credential |-> StakeCredentialFrom(certificate.credential)]]
      [] certificate.tag = "StakeDelegation" ->
            [kind |-> "StakeDelegation",
             record |-> [credential |-> StakeCredentialFrom(certificate.credential),
                         pool_hash  |-> ToHex(certificate.pool)]]
      [] certificate.tag = "PoolRetirement" ->
            [kind |-> "PoolRetirement",
             record |-> [pool |-> ToHex(certificate.pool), epoch |-> certificate.epoch]]
      [] certificate.tag = "MoveInstantaneousRewardsCert" ->
            [kind |-> "MoveInstantaneousRewardsCert",
             record |->
                [from_reserves |-> certificate.source = "Reserves",
                 from_treasury |-> certificate.source = "Treasury",
                 to_stake_credentials |->
                    IF certificate.target.tag = "StakeCredentials"
                    THEN Some([i \in 1..Len(certificate.target.creds) |->
                                <<StakeCredentialFrom(certificate.target.creds[i][1]),
                                  certificate.target.creds[i][2]>>])
                    ELSE None,
                 to_other_pot |->
                    IF certificate.target.tag = "OtherAccountingPot"
                    THEN Some(certificate.target.coin)
                    ELSE None]]

\* the EventData variant of a certificate record has the name and the payload
\* of the CertificateRecord variant
to_certificate_event(certificate) == to_certificate_record(certificate)

to_collateral_event(collateral) ==
    [kind |-> "Collateral",
     record |-> [tx_id |-> ToHex(collateral.transaction_id), index |-> collateral.index]]

(***************************************************************************)
(* collect.rs: batch collectors.                                           *)
(***************************************************************************)
\* collect_input_records with the records in the reverse of the input order
collect_input_records_reversed(source) ==
    [i \in 1..Len(source) |-> to_transaction_input_record(source[Len(source) + 1 - i])]

collect_input_records(source) == MapSeq(source, to_transaction_input_record)

FlattenAssets(policies, F(_, _, _)) ==
    Flatten([p \in 1..Len(policies) |->
                [a \in 1..Len(policies[p].assets) |->
                    F(policies[p].policy,
                      policies[p].assets[a].asset,
                      policies[p].assets[a].amount)]])

\* collect_asset_records with one record per policy, for its first asset
collect_asset_records_one_per_policy(amount) ==
    IF amount.tag = "Coin"
    THEN <<>>
    ELSE [p \in 1..Len(amount.policies) |->
            to_transaction_output_asset_record(amount.policies[p].policy,
                amount.policies[p].assets[1].asset, amount.policies[p].assets[1].amount)]

collect_asset_records(amount) ==
    IF amount.tag = "Coin"
    THEN <<>>
    ELSE FlattenAssets(amount.policies, to_transaction_output_asset_record)

collect_mint_records(mint) == FlattenAssets(mint, to_mint_record)

collect_certificate_records(certificates) == MapSeq(certificates, to_certificate_record)

WithdrawalRecord(w) ==
    [reward_account |-> IF w.reward_account.prefix = "e1"
                        THEN <<"hex_tail", w.reward_account.rest>>
                        ELSE ToHex(w.reward_account),
     coin |-> w.coin]

collect_withdrawal_records(withdrawls) == MapSeq(withdrawls, WithdrawalRecord)

\* the metadata section of the three shapes of auxiliary data
AuxMetadata(aux_data) ==
    CASE aux_data.variant = "PostAlonzo" -> aux_data.metadata
      [] aux_data.variant = "Shelley"    -> Some(aux_data.data)
      [] aux_data.variant = "ShelleyMa"  -> Some(aux_data.transaction_metadata)

collect_metadata_records(aux_data) ==
    LET metadata == AuxMetadata(aux_data)
    IN  IF IsSome(metadata)
        THEN CollectResults([i \in 1..Len(Unwrap(metadata)) |->
                to_metadata_record(Unwrap(metadata)[i][1], Unwrap(metadata)[i][2])])
        ELSE Ok(<<>>)

CollectOption(witness_set, F(_)) ==
    IF IsSome(witness_set)
    THEN CollectResults(MapSeq(Unwrap(witness_set), F))
    ELSE Ok(<<>>)

collect_vkey_witness_records_babbage(witness_set) ==
    CollectOption(witness_set, to_vkey_witness_record)

collect_native_witness_records_babbage(witness_set) ==
    CollectOption(witness_set, to_native_witness_record)

collect_plutus_v1_witness_records_babbage(witness_set) ==
    CollectOption(witness_set, to_plutus_v1_witness_record)

collect_plutus_redeemer_records_2(witness_set) ==
    CollectOption(witness_set, to_plutus_redeemer_record)

collect_witness_plutus_datum_records_babbage(witness_set) ==
    CollectOption(witness_set, to_plutus_datum_record)

RequiredSignerRecord(req_sign) == ToHex(req_sign)

collect_required_signers_records(req_signers) ==
    Ok(MapSeq(req_signers, RequiredSignerRecord))

to_legacy_output_record(output) ==
    LET address == AddressFromBytes(output.address)
    IN  IF address.status # "ok"
        THEN address
        ELSE Ok([address        |-> address.val,
                 amount         |-> get_tx_output_coin_value(output.amount),
                 assets         |-> Some(collect_asset_records(output.amount)),
                 datum_hash     |-> IF IsSome(output.datum_hash)
                                    THEN Some(ToHex(Unwrap(output.datum_hash)))
                                    ELSE None,
                 inline_datum   |-> None,
                 inlined_script |-> None])

to_post_alonzo_output_record(output) ==
    LET address == AddressFromBytes(output.address)
        isData  == IsSome(output.datum_option) /\ Unwrap(output.datum_option).tag = "Data"
        isHash  == IsSome(output.datum_option) /\ Unwrap(output.datum_option).tag = "Hash"
        datum   == IF isData
                   THEN to_plutus_datum_record(Unwrap(output.datum_option).datum)
                   ELSE Ok(None)
        script  == IF IsSome(output.script_ref)
                   THEN to_script_ref_record(Unwrap(output.script_ref))
                   ELSE Ok(None)
    IN  CASE address.status # "ok" -> address
          [] datum.status # "ok"   -> datum
          [] script.status # "ok"  -> script
          [] OTHER ->
             Ok([address        |-> address.val,
                 amount         |-> get_tx_output_coin_value(output.value),
                 assets         |-> Some(collect_asset_records(output.value)),
                 datum_hash     |->
                    CASE isHash -> Some(ToHex(Unwrap(output.datum_option).hash))
                      [] isData -> Some(ToHex(OriginalHash(Unwrap(output.datum_option).datum)))
                      [] OTHER  -> None,
                 inline_datum   |-> IF isData THEN Some(datum.val) ELSE None,
                 inlined_script |-> IF IsSome(output.script_ref)
                                    THEN Some(script.val) ELSE None])

AnyOutputRecord(x) ==
    IF x.variant = "Legacy"
    THEN to_legacy_output_record(x)
    ELSE to_post_alonzo_output_record(x)

\* collect_any_output_records with the outputs that fail to convert left out
collect_any_output_records_skipping_malformed(source) ==
    Ok(MapSeq(SelectSeq(MapSeq(source, AnyOutputRecord), LAMBDA r : r.status = "ok"),
              LAMBDA r : r.val))

collect_any_output_records(source) == CollectResults(MapSeq(source, AnyOutputRecord))

(***************************************************************************)
(* The event writer: an EventContext and the output channel.  A crawl      *)
(* function is an operator from the writer's context to the events it      *)
(* appends and the status it returns.                                      *)
(***************************************************************************)
DefaultContext ==
    [block_hash     |-> None, block_number  |-> None, slot            |-> None,
     timestamp      |-> None, tx_idx        |-> None, tx_hash         |-> None,
     input_idx      |-> None, output_idx    |-> None, output_address  |-> None,
     certificate_idx |-> None]

\* #[derive(Merge)] on EventContext: a field that is already set is kept,
\* an unset field takes the value of the other context
merge(self, other) ==
    [f \in DOMAIN self |-> IF self[f] = None THEN other[f] ELSE self[f]]

child_writer(context, extra_context) == merge(extra_context, context)

append(context, data) ==
    [events |-> <<[context |-> context, data |-> data, fingerprint |-> None]>>,
     status |-> "ok"]

\* append_from: the record is turned into the EventData variant of its type
append_from(context, kind, record) == append(context, [kind |-> kind, record |-> record])

\* append_from(conversion?)? : the conversion's failure is returned
AppendResult(context, kind, r) ==
    IF r.status = "ok" THEN append_from(context, kind, r.val)
    ELSE [events |-> <<>>, status |-> r.status]

compute_timestamp(slot) == Some(<<"timestamp", slot>>)

absolute_slot_to_relative(slot) == <<<<"epoch", slot>>, <<"epoch_slot", slot>>>>

(***************************************************************************)
(* babbage.rs: converters.                                                 *)
(***************************************************************************)
to_babbage_tx_size(body, aux_data, witness_set) ==
    body.raw_cbor_len
      + (IF IsSome(aux_data) THEN Unwrap(aux_data).raw_cbor_len ELSE 2)
      + (IF IsSome(witness_set) THEN Unwrap(witness_set).raw_cbor_len ELSE 1)

to_babbage_protocol_update_record(update) ==
    [update EXCEPT !.decentralization_constant = None, !.extra_entropy = None]

to_babbage_update_record(update) ==
    LET n      == Len(update.proposed_protocol_parameter_updates)
        keyOf(i) == ToHex(update.proposed_protocol_parameter_updates[i][1])
        last(k) == CHOOSE i \in 1..n :
                      keyOf(i) = k /\ \A j \in 1..n : keyOf(j) = k => j <= i
    IN  [proposed_protocol_parameter_updates |->
            [k \in {keyOf(i) : i \in 1..n} |->
                to_babbage_protocol_update_record(
                    update.proposed_protocol_parameter_updates[last(k)][2])],
         epoch |-> update.epoch]

\* `as u32` of the usize sum keeps the low 32 bits, here as two 16-bit halves
SizeAsU32(n) == (n % 65536) + 65536 * ((n \div 65536) % 65536)

CollateralOutputRecord(output) ==
    LET r == AnyOutputRecord(output)
    IN  IF r.status = "ok" THEN r ELSE Failure("panic")

\* to_babbage_transaction_record with the mints counted inside the detail block
to_babbage_transaction_record_counting_in_details(config, body, tx_hash, aux_data, witness_set) ==
    LET details     == config.include_transaction_details
        outputs     == collect_any_output_records(body.outputs)
        inputs      == collect_input_records(body.inputs)
        mints       == IF IsSome(body.mint) THEN collect_mint_records(Unwrap(body.mint)) ELSE <<>>
        certs       == IF IsSome(body.certificates)
                       THEN collect_certificate_records(Unwrap(body.certificates))
                       ELSE <<>>
        req_signers == IF IsSome(body.required_signers)
                       THEN collect_required_signers_records(Unwrap(body.required_signers))
                       ELSE Ok(<<>>)
        collateral_output ==
                       IF IsSome(body.collateral_return)
                       THEN CollateralOutputRecord(Unwrap(body.collateral_return))
                       ELSE Ok(None)
        metadata    == IF IsSome(aux_data)
                       THEN collect_metadata_records(Unwrap(aux_data))
                       ELSE Ok(<<>>)
        ws          == Unwrap(witness_set)
        hasWs       == IsSome(witness_set)
        vkeys       == IF hasWs THEN collect_vkey_witness_records_babbage(ws.vkeywitness)
                       ELSE Ok(<<>>)
        natives     == IF hasWs THEN collect_native_witness_records_babbage(ws.native_script)
                       ELSE Ok(<<>>)
        plutus      == IF hasWs
                       THEN collect_plutus_v1_witness_records_babbage(ws.plutus_v1_script)
                       ELSE Ok(<<>>)
        redeemers   == IF hasWs THEN collect_plutus_redeemer_records_2(ws.redeemer)
                       ELSE Ok(<<>>)
        datums      == IF hasWs
                       THEN collect_witness_plutus_datum_records_babbage(ws.plutus_data)
                       ELSE Ok(<<>>)
        Detail(present, v) == IF details /\ present THEN Some(v) ELSE None
    IN  CASE outputs.status # "ok"                        -> Failure(outputs.status)
          [] req_signers.status # "ok"                    -> Failure(req_signers.status)
          [] details /\ collateral_output.status # "ok"   -> Failure(collateral_output.status)
          [] details /\ metadata.status # "ok"            -> Failure(metadata.status)
          [] details /\ vkeys.status # "ok"               -> Failure(vkeys.status)
          [] details /\ natives.status # "ok"             -> Failure(natives.status)
          [] details /\ plutus.status # "ok"              -> Failure(plutus.status)
          [] details /\ redeemers.status # "ok"           -> Failure(redeemers.status)
          [] details /\ datums.status # "ok"              -> Failure(datums.status)
          [] OTHER ->
             Ok([hash                    |-> tx_hash,
                 size                    |-> SizeAsU32(to_babbage_tx_size(body, aux_data, witness_set)),
                 fee                     |-> body.fee,
                 ttl                     |-> body.ttl,
                 validity_interval_start |-> body.validity_interval_start,
                 network_id              |-> body.network_id,
                 output_count            |-> Len(outputs.val),
                 total_output            |-> SumSeq([i \in 1..Len(outputs.val) |-> outputs.val[i].amount]),
                 input_count             |-> Len(inputs),
                 mint_count              |-> IF details THEN Len(mints) ELSE 0,
                 certificate_count       |-> Len(certs),
                 \* Option::iter().count(): the number of Some values, 0 or 1
                 collateral_input_count  |-> IF IsSome(body.collateral) THEN 1 ELSE 0,
                 has_collateral_output   |-> IsSome(body.collateral_return),
                 required_signers_count  |-> Len(req_signers.val),
                 mint              |-> Detail(IsSome(body.mint), mints),
                 certs             |-> Detail(IsSome(body.certificates), certs),
                 update            |-> IF details /\ IsSome(body.update)
                                       THEN Some(to_babbage_update_record(Unwrap(body.update)))
                                       ELSE None,
                 required_signers  |-> Detail(IsSome(body.required_signers), req_signers.val),
                 outputs           |-> Detail(TRUE, outputs.val),
                 inputs            |-> Detail(TRUE, inputs),
                 collateral_inputs |-> IF details /\ IsSome(body.collateral)
                                       THEN Some(collect_input_records(Unwrap(body.collateral)))
                                       ELSE None,
                 collateral_output |-> IF details THEN collateral_output.val ELSE None,
                 metadata          |-> Detail(IsSome(aux_data), metadata.val),
                 vkey_witnesses    |-> Detail(hasWs, vkeys.val),
                 native_witnesses  |-> Detail(hasWs, natives.val),
                 plutus_witnesses  |-> Detail(hasWs, plutus.val),
                 plutus_redeemers  |-> Detail(hasWs, redeemers.val),
                 plutus_data       |-> Detail(hasWs, datums.val),
                 withdrawals       |-> IF details /\ IsSome(body.withdrawals)
                                       THEN Some(collect_withdrawal_records(Unwrap(body.withdrawals)))
                                       ELSE None])

to_babbage_transaction_record(config, body, tx_hash, aux_data, witness_set) ==
    LET details     == config.include_transaction_details
        outputs     == collect_any_output_records(body.outputs)
        inputs      == collect_input_records(body.inputs)
        mints       == IF IsSome(body.mint) THEN collect_mint_records(Unwrap(body.mint)) ELSE <<>>
        certs       == IF IsSome(body.certificates)
                       THEN collect_certificate_records(Unwrap(body.certificates))
                       ELSE <<>>
        req_signers == IF IsSome(body.required_signers)
                       THEN collect_required_signers_records(Unwrap(body.required_signers))
                       ELSE Ok(<<>>)
        collateral_output ==
                       IF IsSome(body.collateral_return)
                       THEN CollateralOutputRecord(Unwrap(body.collateral_return))
                       ELSE Ok(None)
        metadata    == IF IsSome(aux_data)
                       THEN collect_metadata_records(Unwrap(aux_data))
                       ELSE Ok(<<>>)
        ws          == Unwrap(witness_set)
        hasWs       == IsSome(witness_set)
        vkeys       == IF hasWs THEN collect_vkey_witness_records_babbage(ws.vkeywitness)
                       ELSE Ok(<<>>)
        natives     == IF hasWs THEN collect_native_witness_records_babbage(ws.native_script)
                       ELSE Ok(<<>>)
        plutus      == IF hasWs
                       THEN collect_plutus_v1_witness_records_babbage(ws.plutus_v1_script)
                       ELSE Ok(<<>>)
        redeemers   == IF hasWs THEN collect_plutus_redeemer_records_2(ws.redeemer)
                       ELSE Ok(<<>>)
        datums      == IF hasWs
                       THEN collect_witness_plutus_datum_records_babbage(ws.plutus_data)
                       ELSE Ok(<<>>)
        Detail(present, v) == IF details /\ present THEN Some(v) ELSE None
    IN  CASE outputs.status # "ok"                        -> Failure(outputs.status)
          [] req_signers.status # "ok"                    -> Failure(req_signers.status)
          [] details /\ collateral_output.status # "ok"   -> Failure(collateral_output.status)
          [] details /\ metadata.status # "ok"            -> Failure(metadata.status)
          [] details /\ vkeys.status # "ok"               -> Failure(vkeys.status)
          [] details /\ natives.status # "ok"             -> Failure(natives.status)
          [] details /\ plutus.status # "ok"              -> Failure(plutus.status)
          [] details /\ redeemers.status # "ok"           -> Failure(redeemers.status)
          [] details /\ datums.status # "ok"              -> Failure(datums.status)
          [] OTHER ->
             Ok([hash                    |-> tx_hash,
                 size                    |-> SizeAsU32(to_babbage_tx_size(body, aux_data, witness_set)),
                 fee                     |-> body.fee,
                 ttl                     |-> body.ttl,
                 validity_interval_start |-> body.validity_interval_start,
                 network_id              |-> body.network_id,
                 output_count            |-> Len(outputs.val),
                 total_output            |-> SumSeq([i \in 1..Len(outputs.val) |-> outputs.val[i].amount]),
                 input_count             |-> Len(inputs),
                 mint_count              |-> Len(mints),
                 certificate_count       |-> Len(certs),
                 \* Option::iter().count(): the number of Some values, 0 or 1
                 collateral_input_count  |-> IF IsSome(body.collateral) THEN 1 ELSE 0,
                 has_collateral_output   |-> IsSome(body.collateral_return),
                 required_signers_count  |-> Len(req_signers.val),
                 mint              |-> Detail(IsSome(body.mint), mints),
                 certs             |-> Detail(IsSome(body.certificates), certs),
                 update            |-> IF details /\ IsSome(body.update)
                                       THEN Some(to_babbage_update_record(Unwrap(body.update)))
                                       ELSE None,
                 required_signers  |-> Detail(IsSome(body.required_signers), req_signers.val),
                 outputs           |-> Detail(TRUE, outputs.val),
                 inputs            |-> Detail(TRUE, inputs),
                 collateral_inputs |-> IF details /\ IsSome(body.collateral)
                                       THEN Some(collect_input_records(Unwrap(body.collateral)))
                                       ELSE None,
                 collateral_output |-> IF details THEN collateral_output.val ELSE None,
                 metadata          |-> Detail(IsSome(aux_data), metadata.val),
                 vkey_witnesses    |-> Detail(hasWs, vkeys.val),
                 native_witnesses  |-> Detail(hasWs, natives.val),
                 plutus_witnesses  |-> Detail(hasWs, plutus.val),
                 plutus_redeemers  |-> Detail(hasWs, redeemers.val),
                 plutus_data       |-> Detail(hasWs, datums.val),
                 withdrawals       |-> IF details /\ IsSome(body.withdrawals)
                                       THEN Some(collect_withdrawal_records(Unwrap(body.withdrawals)))
                                       ELSE None])

\* auxiliary_data_set.iter().find(|(k, _)| *k == idx).map(|(_, v)| v)
FindAuxData(block, idx) ==
    LET hits == {i \in 1..Len(block.auxiliary_data_set) :
                    block.auxiliary_data_set[i][1] = idx}
    IN  IF hits = {} THEN None
        ELSE Some(block.auxiliary_data_set[CHOOSE i \in hits : \A j \in hits : i <= j][2])

\* transaction_witness_sets.get(idx)
GetWitnessSet(block, idx) ==
    IF idx + 1 <= Len(block.transaction_witness_sets)
    THEN Some(block.transaction_witness_sets[idx + 1])
    ELSE None

TxHashHex(tx) == ToHex(OriginalHash(tx))

\* BabbageTxRecordAt with the auxiliary data taken by position, not by key
BabbageTxRecordAtAuxByPosition(config, block, idx) ==
    to_babbage_transaction_record(config, block.transaction_bodies[idx + 1],
        TxHashHex(block.transaction_bodies[idx + 1]),
        IF idx + 1 <= Len(block.auxiliary_data_set)
        THEN Some(block.auxiliary_data_set[idx + 1][2]) ELSE None,
        GetWitnessSet(block, idx))

\* idx is the zero-based position of enumerate()
BabbageTxRecordAt(config, block, idx) ==
    to_babbage_transaction_record(config, block.transaction_bodies[idx + 1],
        TxHashHex(block.transaction_bodies[idx + 1]),
        FindAuxData(block, idx), GetWitnessSet(block, idx))

collect_babbage_tx_records(config, block) ==
    CollectResults([i \in 1..Len(block.transaction_bodies) |->
                        BabbageTxRecordAt(config, block, i - 1)])

to_babbage_block_record_cbor_with_details(config, source, hash, cbor) ==
    LET relative_epoch == absolute_slot_to_relative(source.header.header_body.slot)
        transactions   == IF config.include_block_details
                          THEN collect_babbage_tx_records(config, source)
                          ELSE Ok(<<>>)
    IN  IF transactions.status # "ok"
        THEN Failure(transactions.status)
        ELSE Ok([era           |-> "Babbage",
                 body_size     |-> source.header.header_body.block_body_size,
                 issuer_vkey   |-> ToHex(source.header.header_body.issuer_vkey),
                 vrf_vkey      |-> ToHex(source.header.header_body.vrf_vkey),
                 tx_count      |-> Len(source.transaction_bodies),
                 hash          |-> ToHex(hash),
                 number        |-> source.header.header_body.block_number,
                 slot          |-> source.header.header_body.slot,
                 epoch         |-> Some(relative_epoch[1]),
                 epoch_slot    |-> Some(relative_epoch[2]),
                 previous_hash |-> IF IsSome(source.header.header_body.prev_hash)
                                   THEN ToHex(Unwrap(source.header.header_body.prev_hash))
                                   ELSE ToHex(<<>>),
                 cbor_hex      |-> IF config.include_block_details THEN Some(ToHex(cbor)) ELSE None,
                 transactions  |-> IF config.include_block_details
                                   THEN Some(transactions.val) ELSE None])

to_babbage_block_record(config, source, hash, cbor) ==
    LET relative_epoch == absolute_slot_to_relative(source.header.header_body.slot)
        transactions   == IF config.include_block_details
                          THEN collect_babbage_tx_records(config, source)
                          ELSE Ok(<<>>)
    IN  IF transactions.status # "ok"
        THEN Failure(transactions.status)
        ELSE Ok([era           |-> "Babbage",
                 body_size     |-> source.header.header_body.block_body_size,
                 issuer_vkey   |-> ToHex(source.header.header_body.issuer_vkey),
                 vrf_vkey      |-> ToHex(source.header.header_body.vrf_vkey),
                 tx_count      |-> Len(source.transaction_bodies),
                 hash          |-> ToHex(hash),
                 number        |-> source.header.header_body.block_number,
                 slot          |-> source.header.header_body.slot,
                 epoch         |-> Some(relative_epoch[1]),
                 epoch_slot    |-> Some(relative_epoch[2]),
                 previous_hash |-> IF IsSome(source.header.header_body.prev_hash)
                                   THEN ToHex(Unwrap(source.header.header_body.prev_hash))
                                   ELSE ToHex(<<>>),
                 cbor_hex      |-> IF config.include_block_cbor THEN Some(ToHex(cbor)) ELSE None,
                 transactions  |-> IF config.include_block_details
                                   THEN Some(transactions.val) ELSE None])

(***************************************************************************)
(* map.rs, collect.rs: the converters of the eras before Babbage.          *)
(***************************************************************************)
collect_legacy_output_records(source) ==
    CollectResults(MapSeq(source, to_legacy_output_record))

collect_vkey_witness_records(witness_set) ==
    CollectOption(witness_set, to_vkey_witness_record)

collect_native_witness_records(witness_set) ==
    CollectOption(witness_set, to_native_witness_record)

collect_plutus_v1_witness_records(witness_set) ==
    CollectOption(witness_set, to_plutus_v1_witness_record)

collect_plutus_redeemer_records(witness_set) ==
    CollectOption(witness_set, to_plutus_redeemer_record)

collect_witness_plutus_datum_records(witness_set) ==
    CollectOption(witness_set, to_plutus_datum_record)

to_protocol_update_record(update) ==
    [update EXCEPT
        !.decentralization_constant =
            IF IsSome(@) THEN Some(<<"unit_interval", Unwrap(@)>>) ELSE None,
        !.extra_entropy = IF IsSome(@) THEN Some(<<"nonce", Unwrap(@)>>) ELSE None]

to_update_record(update) ==
    LET n      == Len(update.proposed_protocol_parameter_updates)
        keyOf(i) == ToHex(update.proposed_protocol_parameter_updates[i][1])
        last(k) == CHOOSE i \in 1..n :
                      keyOf(i) = k /\ \A j \in 1..n : keyOf(j) = k => j <= i
    IN  [proposed_protocol_parameter_updates |->
            [k \in {keyOf(i) : i \in 1..n} |->
                to_protocol_update_record(
                    update.proposed_protocol_parameter_updates[last(k)][2])],
         epoch |-> update.epoch]

\* to_tx_size with the two defaults taken for each other
to_tx_size_defaults_swapped(body, aux_data, witness_set) ==
    body.raw_cbor_len
      + (IF IsSome(aux_data) THEN Unwrap(aux_data).raw_cbor_len ELSE 1)
      + (IF IsSome(witness_set) THEN Unwrap(witness_set).raw_cbor_len ELSE 2)

to_tx_size(body, aux_data, witness_set) ==
    body.raw_cbor_len
      + (IF IsSome(aux_data) THEN Unwrap(aux_data).raw_cbor_len ELSE 2)
      + (IF IsSome(witness_set) THEN Unwrap(witness_set).raw_cbor_len ELSE 1)

to_transaction_record(config, body, tx_hash, aux_data, witness_set) ==
    LET details     == config.include_transaction_details
        outputs     == collect_legacy_output_records(body.outputs)
        inputs      == collect_input_records(body.inputs)
        mints       == IF IsSome(body.mint) THEN collect_mint_records(Unwrap(body.mint)) ELSE <<>>
        certs       == IF IsSome(body.certificates)
                       THEN collect_certificate_records(Unwrap(body.certificates))
                       ELSE <<>>
        req_signers == IF IsSome(body.required_signers)
                       THEN collect_required_signers_records(Unwrap(body.required_signers))
                       ELSE Ok(<<>>)
        metadata    == IF IsSome(aux_data)
                       THEN collect_metadata_records(Unwrap(aux_data))
                       ELSE Ok(<<>>)
        ws          == Unwrap(witness_set)
        hasWs       == IsSome(witness_set)
        vkeys       == IF hasWs THEN collect_vkey_witness_records(ws.vkeywitness) ELSE Ok(<<>>)
        natives     == IF hasWs THEN collect_native_witness_records(ws.native_script)
                       ELSE Ok(<<>>)
        plutus      == IF hasWs THEN collect_plutus_v1_witness_records(ws.plutus_script)
                       ELSE Ok(<<>>)
        redeemers   == IF hasWs THEN collect_plutus_redeemer_records(ws.redeemer) ELSE Ok(<<>>)
        datums      == IF hasWs THEN collect_witness_plutus_datum_records(ws.plutus_data)
                       ELSE Ok(<<>>)
        Detail(present, v) == IF details /\ present THEN Some(v) ELSE None
    IN  CASE outputs.status # "ok"                        -> Failure(outputs.status)
          [] req_signers.status # "ok"                    -> Failure(req_signers.status)
          [] details /\ metadata.status # "ok"            -> Failure(metadata.status)
          [] details /\ vkeys.status # "ok"               -> Failure(vkeys.status)
          [] details /\ natives.status # "ok"             -> Failure(natives.status)
          [] details /\ plutus.status # "ok"              -> Failure(plutus.status)
          [] details /\ redeemers.status # "ok"           -> Failure(redeemers.status)
          [] details /\ datums.status # "ok"              -> Failure(datums.status)
          [] OTHER ->
             Ok([hash                    |-> tx_hash,
                 size                    |-> SizeAsU32(to_tx_size(body, aux_data, witness_set)),
                 fee                     |-> body.fee,
                 ttl                     |-> body.ttl,
                 validity_interval_start |-> body.validity_interval_start,
                 network_id              |-> body.network_id,
                 output_count            |-> Len(outputs.val),
                 total_output            |-> SumSeq([i \in 1..Len(outputs.val) |-> outputs.val[i].amount]),
                 input_count             |-> Len(inputs),
                 mint_count              |-> Len(mints),
                 certificate_count       |-> Len(certs),
                 \* ..TransactionRecord::default()
                 collateral_input_count  |-> 0,
                 has_collateral_output   |-> FALSE,
                 required_signers_count  |-> Len(req_signers.val),
                 mint              |-> Detail(IsSome(body.mint), mints),
                 certs             |-> Detail(IsSome(body.certificates), certs),
                 update            |-> IF details /\ IsSome(body.update)
                                       THEN Some(to_update_record(Unwrap(body.update)))
                                       ELSE None,
                 required_signers  |-> Detail(IsSome(body.required_signers), req_signers.val),
                 outputs           |-> Detail(TRUE, outputs.val),
                 inputs            |-> Detail(TRUE, inputs),
                 collateral_inputs |-> None,
                 collateral_output |-> None,
                 metadata          |-> Detail(IsSome(aux_data), metadata.val),
                 vkey_witnesses    |-> Detail(hasWs, vkeys.val),
                 native_witnesses  |-> Detail(hasWs, natives.val),
                 plutus_witnesses  |-> Detail(hasWs, plutus.val),
                 plutus_redeemers  |-> Detail(hasWs, redeemers.val),
                 plutus_data       |-> Detail(hasWs, datums.val),
                 withdrawals       |-> IF details /\ IsSome(body.withdrawals)
                                       THEN Some(collect_withdrawal_records(Unwrap(body.withdrawals)))
                                       ELSE None])

\* idx is the zero-based position of enumerate()
ShelleyTxRecordAt(config, block, idx) ==
    to_transaction_record(config, block.transaction_bodies[idx + 1],
        TxHashHex(block.transaction_bodies[idx + 1]),
        FindAuxData(block, idx), GetWitnessSet(block, idx))

collect_shelley_tx_records(config, block) ==
    CollectResults([i \in 1..Len(block.transaction_bodies) |->
                        ShelleyTxRecordAt(config, block, i - 1)])

to_block_record(config, source, hash, cbor, era) ==
    LET relative_epoch == absolute_slot_to_relative(source.header.header_body.slot)
        transactions   == IF config.include_block_details
                          THEN collect_shelley_tx_records(config, source)
                          ELSE Ok(<<>>)
    IN  IF transactions.status # "ok"
        THEN Failure(transactions.status)
        ELSE Ok([era           |-> era,
                 body_size     |-> source.header.header_body.block_body_size,
                 issuer_vkey   |-> ToHex(source.header.header_body.issuer_vkey),
                 vrf_vkey      |-> ToHex(source.header.header_body.vrf_vkey),
                 tx_count      |-> Len(source.transaction_bodies),
                 hash          |-> ToHex(hash),
                 number        |-> source.header.header_body.block_number,
                 slot          |-> source.header.header_body.slot,
                 epoch         |-> Some(relative_epoch[1]),
                 epoch_slot    |-> Some(relative_epoch[2]),
                 previous_hash |-> IF IsSome(source.header.header_body.prev_hash)
                                   THEN ToHex(Unwrap(source.header.header_body.prev_hash))
                                   ELSE ToHex(<<>>),
                 cbor_hex      |-> IF config.include_block_cbor THEN Some(ToHex(cbor)) ELSE None,
                 transactions  |-> IF config.include_block_details
                                   THEN Some(transactions.val) ELSE None])

(***************************************************************************)
(* The crawl of the parts of a transaction.                                *)
(***************************************************************************)
crawl_transaction_input(context, input) ==
    append_from(context, "TxInput", to_transaction_input_record(input))

crawl_transaction_output_amount(context, amount) ==
    IF amount.tag = "Multiasset"
    THEN Chain(MapSeq(collect_asset_records(amount),
                      LAMBDA r : append_from(context, "OutputAsset", r)))
    ELSE NoEvents

crawl_legacy_output(context, output) ==
    LET record  == to_legacy_output_record(output)
        child   == child_writer(context,
                      [DefaultContext EXCEPT !.output_address = Some(record.val.address)])
    IN  IF record.status # "ok"
        THEN [events |-> <<>>, status |-> record.status]
        ELSE Chain(<<append_from(child, "TxOutput", record.val),
                     crawl_transaction_output_amount(child, output.amount)>>)

crawl_certificate(context, certificate) == append(context, to_certificate_event(certificate))

crawl_collateral(context, collateral) == append(context, to_collateral_event(collateral))

crawl_mints(context, mint) ==
    Chain(MapSeq(collect_mint_records(mint), LAMBDA r : append_from(context, "Mint", r)))

crawl_auxdata(context, aux_data) ==
    LET metadata == IF IsSome(AuxMetadata(aux_data))
                    THEN Unwrap(AuxMetadata(aux_data)) ELSE <<>>
        native   == IF aux_data.variant = "PostAlonzo" /\ IsSome(aux_data.native_scripts)
                    THEN Unwrap(aux_data.native_scripts) ELSE <<>>
        plutus   == IF aux_data.variant = "PostAlonzo" /\ IsSome(aux_data.plutus_scripts)
                    THEN Unwrap(aux_data.plutus_scripts) ELSE <<>>
    IN  Chain(<<Chain([i \in 1..Len(metadata) |->
                    AppendResult(context, "Metadata",
                                 to_metadata_record(metadata[i][1], metadata[i][2]))]),
                Chain(MapSeq(native,
                    LAMBDA x : append(context, to_aux_native_script_event(x)))),
                Chain(MapSeq(plutus,
                    LAMBDA x : append(context, to_aux_plutus_script_event(x))))>>)

\* crawl_post_alonzo_output with the inline datum appended before the assets
crawl_post_alonzo_output_datum_first(context, output) ==
    LET record  == to_post_alonzo_output_record(output)
        address == AddressFromBytes(output.address)
        child   == child_writer(context,
                      [DefaultContext EXCEPT !.output_address = Some(address.val)])
        isData  == IsSome(output.datum_option) /\ Unwrap(output.datum_option).tag = "Data"
    IN  IF record.status # "ok"
        THEN [events |-> <<>>, status |-> record.status]
        ELSE Chain(<<append_from(context, "TxOutput", record.val),
                     IF address.status = "ok" THEN NoEvents
                     ELSE [events |-> <<>>, status |-> address.status],
                     IF isData
                     THEN AppendResult(child, "PlutusDatum",
                            to_plutus_datum_record(Unwrap(output.datum_option).datum))
                     ELSE NoEvents,
                     crawl_transaction_output_amount(child, output.value)>>)

crawl_post_alonzo_output(context, output) ==
    LET record  == to_post_alonzo_output_record(output)
        address == AddressFromBytes(output.address)
        child   == child_writer(context,
                      [DefaultContext EXCEPT !.output_address = Some(address.val)])
        isData  == IsSome(output.datum_option) /\ Unwrap(output.datum_option).tag = "Data"
    IN  IF record.status # "ok"
        THEN [events |-> <<>>, status |-> record.status]
        ELSE Chain(<<append_from(context, "TxOutput", record.val),
                     IF address.status = "ok" THEN NoEvents
                     ELSE [events |-> <<>>, status |-> address.status],
                     crawl_transaction_output_amount(child, output.value),
                     IF isData
                     THEN AppendResult(child, "PlutusDatum",
                            to_plutus_datum_record(Unwrap(output.datum_option).datum))
                     ELSE NoEvents>>)

crawl_babbage_transaction_output(context, output) ==
    IF output.variant = "Legacy"
    THEN crawl_legacy_output(context, output)
    ELSE crawl_post_alonzo_output(context, output)

\* one `if let Some(list) = .. { for x in list { append_from(convert(x)?)? } }`
CrawlWitnessList(context, list, kind, F(_)) ==
    IF IsSome(list)
    THEN Chain(MapSeq(Unwrap(list), LAMBDA x : AppendResult(context, kind, F(x))))
    ELSE NoEvents

crawl_babbage_witness_set(context, witness_set) ==
    Chain(<<CrawlWitnessList(context, witness_set.native_script,
                             "NativeWitness", to_native_witness_record),
            CrawlWitnessList(context, witness_set.plutus_v1_script,
                             "PlutusWitness", to_plutus_v1_witness_record),
            CrawlWitnessList(context, witness_set.redeemer,
                             "PlutusRedeemer", to_plutus_redeemer_record),
            CrawlWitnessList(context, witness_set.plutus_data,
                             "PlutusDatum", to_plutus_datum_record)>>)

\* the child writer of one input, output or certificate of a transaction
ChildAt(context, field, i) ==
    child_writer(context, [DefaultContext EXCEPT ![field] = Some(i)])

\* for (idx, input) in tx.inputs.iter().enumerate()
CrawlInputs(context, tx) ==
    Chain([i \in 1..Len(tx.inputs) |->
        crawl_transaction_input(ChildAt(context, "input_idx", i - 1), tx.inputs[i])])

\* for (idx, output) in tx.outputs.iter().enumerate()
CrawlOutputs(context, tx) ==
    Chain([i \in 1..Len(tx.outputs) |->
        crawl_babbage_transaction_output(ChildAt(context, "output_idx", i - 1),
                                         tx.outputs[i])])

\* if let Some(certs) = &tx.certificates { for (idx, cert) in .. }
CrawlCertificates(context, tx) ==
    IF IsSome(tx.certificates)
    THEN Chain([i \in 1..Len(Unwrap(tx.certificates)) |->
            crawl_certificate(ChildAt(context, "certificate_idx", i - 1),
                              Unwrap(tx.certificates)[i])])
    ELSE NoEvents

\* CrawlCollaterals with a child writer per collateral input, as for the inputs
CrawlCollateralsAsInputs(context, tx) ==
    IF IsSome(tx.collateral)
    THEN Chain([i \in 1..Len(Unwrap(tx.collateral)) |->
            crawl_collateral(ChildAt(context, "input_idx", i - 1), Unwrap(tx.collateral)[i])])
    ELSE NoEvents

\* if let Some(collateral) = &tx.collateral { for .. }: no child writer
CrawlCollaterals(context, tx) ==
    IF IsSome(tx.collateral)
    THEN Chain(MapSeq(Unwrap(tx.collateral), LAMBDA c : crawl_collateral(context, c)))
    ELSE NoEvents

\* crawl_babbage_transaction with the collateral walk moved before the certificates
crawl_babbage_transaction_collateral_first(context, config, tx, tx_hash, aux_data, witness_set) ==
    LET record == to_babbage_transaction_record(config, tx, tx_hash, aux_data, witness_set)
    IN  IF record.status # "ok"
        THEN [events |-> <<>>, status |-> record.status]
        ELSE Chain(<<
            append_from(context, "Transaction", record.val),
            CrawlInputs(context, tx),
            CrawlOutputs(context, tx),
            CrawlCollaterals(context, tx),
            CrawlCertificates(context, tx),
            IF IsSome(tx.mint) THEN crawl_mints(context, Unwrap(tx.mint)) ELSE NoEvents,
            IF IsSome(aux_data) THEN crawl_auxdata(context, Unwrap(aux_data)) ELSE NoEvents,
            IF IsSome(witness_set)
            THEN crawl_babbage_witness_set(context, Unwrap(witness_set))
            ELSE NoEvents,
            IF config.include_transaction_end_events
            THEN append(context, [kind |-> "TransactionEnd", record |-> record.val])
            ELSE NoEvents>>)

crawl_babbage_transaction(context, config, tx, tx_hash, aux_data, witness_set) ==
    LET record == to_babbage_transaction_record(config, tx, tx_hash, aux_data, witness_set)
    IN  IF record.status # "ok"
        THEN [events |-> <<>>, status |-> record.status]
        ELSE Chain(<<
            append_from(context, "Transaction", record.val),
            CrawlInputs(context, tx),
            CrawlOutputs(context, tx),
            CrawlCertificates(context, tx),
            CrawlCollaterals(context, tx),
            IF IsSome(tx.mint) THEN crawl_mints(context, Unwrap(tx.mint)) ELSE NoEvents,
            IF IsSome(aux_data) THEN crawl_auxdata(context, Unwrap(aux_data)) ELSE NoEvents,
            IF IsSome(witness_set)
            THEN crawl_babbage_witness_set(context, Unwrap(witness_set))
            ELSE NoEvents,
            IF config.include_transaction_end_events
            THEN append(context, [kind |-> "TransactionEnd", record |-> record.val])
            ELSE NoEvents>>)

(***************************************************************************)
(* The decoded blocks the crawl is run on.  Every list of a transaction    *)
(* has at most MaxList elements and its i-th element differs from the      *)
(* others, so that a lost, repeated or reordered element shows.            *)
(***************************************************************************)
AddressBytes(ok, id) == [ok |-> ok, id |-> id]

AssetName(i) == [bytes |-> i, utf8 |-> i % 2 = 1]

\* n policies, the p-th with p assets
Policies(n) ==
    [p \in 1..n |-> [policy |-> p,
                     assets |-> [a \in 1..p |-> [asset |-> AssetName(a), amount |-> 10 * p + a]]]]

CoinValue(c) == [tag |-> "Coin", coin |-> c]

MultiassetValue(c) == [tag |-> "Multiasset", coin |-> c, policies |-> Policies(2)]

PlutusData(i) == [id |-> i]

DatumOptions ==
    {None, Some([tag |-> "Hash", hash |-> 7]), Some([tag |-> "Data", datum |-> PlutusData(8)])}

PostAlonzoOutput(address, value, datum_option, script_ref) ==
    [variant |-> "PostAlonzo", address |-> address, value |-> value,
     datum_option |-> datum_option, script_ref |-> script_ref]

LegacyOutput(address, amount, datum_hash) ==
    [variant |-> "Legacy", address |-> address, amount |-> amount, datum_hash |-> datum_hash]

GoodCoinOutput == PostAlonzoOutput(AddressBytes(TRUE, 1), CoinValue(1000000), None, None)

GoodOutputs ==
    {PostAlonzoOutput(AddressBytes(TRUE, 1), CoinValue(1000000), d, None) : d \in DatumOptions}
    \cup {PostAlonzoOutput(AddressBytes(TRUE, 2), MultiassetValue(500000), d, None) :
            d \in DatumOptions}
    \cup {PostAlonzoOutput(AddressBytes(TRUE, 3), CoinValue(3),
                           None, Some([variant |-> "PlutusV2Script", script |-> 9])),
          LegacyOutput(AddressBytes(TRUE, 4), CoinValue(4), None),
          LegacyOutput(AddressBytes(TRUE, 5), MultiassetValue(5), Some(6))}

BadOutputs ==
    {PostAlonzoOutput(AddressBytes(FALSE, 6), MultiassetValue(6),
                      Some([tag |-> "Data", datum |-> PlutusData(8)]), None),
     LegacyOutput(AddressBytes(FALSE, 7), CoinValue(7), None)}

OutputKinds == GoodOutputs \cup BadOutputs

SeqsUpTo(S, n) == UNION {[1..k -> S] : k \in 0..n}

TxInputs(n) == [i \in 1..n |-> [transaction_id |-> 100 + i, index |-> i - 1]]

CollateralInputs(n) == [i \in 1..n |-> [transaction_id |-> 200 + i, index |-> i + 1]]

Credential(i) == [tag |-> IF i % 2 = 1 THEN "AddrKeyhash" ELSE "Scripthash", hash |-> i]

CertificateAt(i) ==
    CASE i % 4 = 1 -> [tag |-> "StakeRegistration", credential |-> Credential(i)]
      [] i % 4 = 2 -> [tag |-> "MoveInstantaneousRewardsCert", source |-> "Reserves",
                       target |-> [tag |-> "OtherAccountingPot", coin |-> 42]]
      [] i % 4 = 3 -> [tag |-> "StakeDelegation", credential |-> Credential(i), pool |-> 30 + i]
      [] OTHER     -> [tag |-> "PoolRetirement", pool |-> 30 + i, epoch |-> i]

Certificates(n) == [i \in 1..n |-> CertificateAt(i)]

\* an optional list: absent, or present with 0..MaxList elements
OptLists(F(_)) == {None} \cup {Some(F(n)) : n \in 0..MaxList}

\* a list of a witness set or of auxiliary data: absent, or 1..MaxList elements
WitLists(F(_)) == {None} \cup {Some(F(n)) : n \in 1..MaxList}

MetadatumAt(i) ==
    CASE i % 4 = 1 -> [tag |-> "Int", v |-> i]
      [] i % 4 = 2 -> [tag |-> "Map",
                       entries |-> <<<<[tag |-> "Text", v |-> "name"], [tag |-> "Int", v |-> i]>>,
                                     <<[tag |-> "Array", items |-> <<>>], [tag |-> "Bytes", v |-> i]>>>>]
      [] i % 4 = 3 -> [tag |-> "Array", items |-> <<[tag |-> "Text", v |-> "x"]>>]
      [] OTHER     -> [tag |-> "Bytes", v |-> i]

Metadata(n) == [i \in 1..n |-> <<720 + i, MetadatumAt(i)>>]

Scripts(base, n) == [i \in 1..n |-> base + i]

VKeyWitnesses(n) == [i \in 1..n |-> [vkey |-> 300 + i, signature |-> 310 + i]]

Redeemers(n) ==
    [i \in 1..n |-> [tag |-> IF i % 2 = 1 THEN "spend" ELSE "mint", index |-> i - 1,
                     data |-> 320 + i, ex_units |-> [mem |-> i, steps |-> 2 * i]]]

WitnessDatums(n) == [i \in 1..n |-> PlutusData(330 + i)]

ListLen(o) == IF IsSome(o) THEN Len(Unwrap(o)) ELSE 0

WitnessSet(vkeywitness, native_script, plutus_v1_script, redeemer, plutus_data) ==
    [vkeywitness |-> vkeywitness, native_script |-> native_script,
     plutus_v1_script |-> plutus_v1_script, redeemer |-> redeemer,
     plutus_data |-> plutus_data,
     raw_cbor_len |-> 3 + 4 * (ListLen(vkeywitness) + ListLen(native_script)
                        + ListLen(plutus_v1_script) + ListLen(redeemer) + ListLen(plutus_data))]

WitnessSets ==
    {WitnessSet(v, n, p, r, d) :
        v \in WitLists(VKeyWitnesses),
        n \in WitLists(LAMBDA k : Scripts(340, k)),
        p \in WitLists(LAMBDA k : Scripts(350, k)),
        r \in WitLists(Redeemers),
        d \in WitLists(WitnessDatums)}

FullWitnessSet ==
    WitnessSet(Some(VKeyWitnesses(MaxList)), Some(Scripts(340, MaxList)),
               Some(Scripts(350, MaxList)), Some(Redeemers(MaxList)),
               Some(WitnessDatums(MaxList)))

EmptyWitnessSet == WitnessSet(None, None, None, None, None)

PostAlonzoAuxData(metadata, native_scripts, plutus_scripts) ==
    [variant |-> "PostAlonzo", metadata |-> metadata,
     native_scripts |-> native_scripts, plutus_scripts |-> plutus_scripts,
     raw_cbor_len |-> 5 + 6 * (ListLen(metadata) + ListLen(native_scripts)
                        + ListLen(plutus_scripts))]

AuxDatas ==
    {PostAlonzoAuxData(m, n, p) :
        m \in OptLists(Metadata),
        n \in WitLists(LAMBDA k : Scripts(360, k)),
        p \in WitLists(LAMBDA k : Scripts(370, k))}
    \cup {[variant |-> "Shelley", data |-> Metadata(1), raw_cbor_len |-> 9]}

FullAuxData ==
    PostAlonzoAuxData(Some(Metadata(MaxList)), Some(Scripts(360, 1)), Some(Scripts(370, 1)))

ProtocolUpdate ==
    [epoch |-> 3,
     proposed_protocol_parameter_updates |->
        <<<<50, [minfee_a |-> Some(44), decentralization_constant |-> Some(1),
                 extra_entropy |-> Some(2)]>>>>]

Withdrawals ==
    <<[reward_account |-> [prefix |-> "e1", rest |-> 61], coin |-> 5],
      [reward_account |-> [prefix |-> "f1", rest |-> 62], coin |-> 6]>>

\* a transaction body with its inputs and outputs and nothing else
PlainBody(id, inputs, outputs) ==
    [id |-> id, fee |-> 200000, ttl |-> Some(90), validity_interval_start |-> None,
     network_id |-> Some(1), inputs |-> inputs, outputs |-> outputs,
     certificates |-> None, collateral |-> None, collateral_return |-> None,
     mint |-> None, required_signers |-> None, withdrawals |-> None, update |-> None,
     raw_cbor_len |-> 40 + 3 * Len(inputs) + 7 * Len(outputs)]

\* a transaction as it sits in a block: the body, the auxiliary data keyed by
\* its position (if any) and the witness set at its position (if any)
Tx(body, aux_data, witness_set) ==
    [body |-> body, aux_data |-> aux_data, witness_set |-> witness_set]

\* transactions that differ in their outputs
TxsByOutputs ==
    {Tx(PlainBody(1, TxInputs(1), outs), None, None) : outs \in SeqsUpTo(OutputKinds, MaxList)}

\* transactions that differ in their inputs, certificates, collateral and mint
TxsBySections ==
    {Tx([PlainBody(2, TxInputs(n), <<GoodCoinOutput>>) EXCEPT
            !.certificates = certs, !.collateral = coll, !.mint = mint],
        None, None) :
        n \in 0..MaxList,
        certs \in OptLists(Certificates),
        coll \in OptLists(CollateralInputs),
        mint \in OptLists(Policies)}

\* transactions that differ in their witness set
TxsByWitnesses ==
    {Tx(PlainBody(3, TxInputs(1), <<GoodCoinOutput>>), None, Some(ws)) : ws \in WitnessSets}

\* transactions that differ in their auxiliary data, with and without witnesses
TxsByAuxData ==
    {Tx(PlainBody(4, TxInputs(1), <<GoodCoinOutput>>), aux, ws) :
        aux \in {None} \cup {Some(a) : a \in AuxDatas},
        ws \in {None, Some(FullWitnessSet)}}

\* transactions that differ in their collateral return and optional sections
TxsByCollateral ==
    {Tx([PlainBody(5, TxInputs(1), <<GoodCoinOutput>>) EXCEPT
            !.collateral = coll, !.collateral_return = ret,
            !.required_signers = IF extras THEN Some(<<71, 72>>) ELSE None,
            !.withdrawals = IF extras THEN Some(Withdrawals) ELSE None,
            !.update = IF extras THEN Some(ProtocolUpdate) ELSE None],
        None, Some(EmptyWitnessSet)) :
        coll \in OptLists(CollateralInputs),
        ret \in {None} \cup {Some(o) : o \in
                    {GoodCoinOutput, LegacyOutput(AddressBytes(TRUE, 5), MultiassetValue(5), Some(6))}
                    \cup BadOutputs},
        extras \in BOOLEAN}

\* a transaction with every section filled
FullTx ==
    Tx([PlainBody(6, TxInputs(MaxList),
            <<PostAlonzoOutput(AddressBytes(TRUE, 1), CoinValue(1000000), None, None),
              PostAlonzoOutput(AddressBytes(TRUE, 2), MultiassetValue(500000),
                               Some([tag |-> "Data", datum |-> PlutusData(8)]), None)>>)
        EXCEPT !.certificates = Some(Certificates(MaxList)),
               !.collateral = Some(CollateralInputs(MaxList)),
               !.collateral_return = Some(GoodCoinOutput),
               !.mint = Some(Policies(1)),
               !.required_signers = Some(<<71>>)],
       Some(FullAuxData), Some(FullWitnessSet))

\* the transactions that blocks of several transactions are made of
CoreTxs ==
    {FullTx,
     Tx(PlainBody(7, <<>>, <<GoodCoinOutput>>), None, Some(EmptyWitnessSet)),
     Tx(PlainBody(8, TxInputs(1),
            <<GoodCoinOutput,
              PostAlonzoOutput(AddressBytes(FALSE, 6), CoinValue(6), None, None)>>),
        Some(FullAuxData), Some(FullWitnessSet)),
     Tx([PlainBody(9, TxInputs(1), <<GoodCoinOutput>>) EXCEPT
            !.collateral_return =
                Some(PostAlonzoOutput(AddressBytes(FALSE, 6), CoinValue(6), None, None))],
        None, Some(EmptyWitnessSet)),
     Tx(PlainBody(10, TxInputs(1), <<GoodCoinOutput>>), Some(FullAuxData), None)}

SingleTxs ==
    TxsByOutputs \cup TxsBySections \cup TxsByWitnesses \cup TxsByAuxData
        \cup TxsByCollateral \cup {FullTx}

\* the witness sets of a block are dense: a transaction without one is only
\* followed by transactions without one
DenseWitnesses(txs) ==
    \A i \in 1..Len(txs) : \A j \in 1..Len(txs) :
        (i < j /\ txs[i].witness_set = None) => txs[j].witness_set = None

TxLists ==
    {<<>>} \cup {<<t>> : t \in SingleTxs}
    \cup {txs \in UNION {[1..k -> CoreTxs] : k \in 2..MaxTxs} : DenseWitnesses(txs)}

Header ==
    [header_body |->
        [slot |-> 1000, block_number |-> 5, prev_hash |-> Some(<<4>>),
         issuer_vkey |-> 11, vrf_vkey |-> 12, block_body_size |-> 900],
     id |-> 13]

MintedBlock(txs) ==
    LET n == Len(txs)
        withAux == {i \in 1..n : IsSome(txs[i].aux_data)}
        withWs  == {i \in 1..n : IsSome(txs[i].witness_set)}
        idxSeq  == [i \in 1..n |-> i]
    IN  [header |-> Header,
         transaction_bodies |-> [i \in 1..n |-> txs[i].body],
         auxiliary_data_set |->
            LET keys == SelectSeq(idxSeq, LAMBDA i : i \in withAux)
            IN  [k \in 1..Len(keys) |-> <<keys[k] - 1, Unwrap(txs[keys[k]].aux_data)>>],
         transaction_witness_sets |->
            [i \in 1..Cardinality(withWs) |-> Unwrap(txs[i].witness_set)],
         cbor |-> <<"cbor", n>>]

Blocks == {MintedBlock(txs) : txs \in TxLists}

Configs ==
    [include_block_details          : BOOLEAN,
     include_transaction_details    : BOOLEAN,
     include_block_cbor             : BOOLEAN,
     include_transaction_end_events : BOOLEAN,
     include_block_end_events       : BOOLEAN]

(***************************************************************************)
(* Blocks of the eras before Babbage: every output is a legacy output, a   *)
(* body has no collateral return and the Plutus scripts of a witness set   *)
(* sit in plutus_script.                                                   *)
(***************************************************************************)
LegacyWitnessSet(ws) ==
    [vkeywitness |-> ws.vkeywitness, native_script |-> ws.native_script,
     plutus_script |-> ws.plutus_v1_script, redeemer |-> ws.redeemer,
     plutus_data |-> ws.plutus_data, raw_cbor_len |-> ws.raw_cbor_len]

LegacyOutputKinds ==
    {LegacyOutput(AddressBytes(TRUE, 1), CoinValue(1000000), None),
     LegacyOutput(AddressBytes(TRUE, 2), MultiassetValue(500000), Some(6)),
     LegacyOutput(AddressBytes(FALSE, 6), CoinValue(6), None)}

LegacyBody(id, inputs, outputs, extras) ==
    LET b == [PlainBody(id, inputs, outputs) EXCEPT
                !.certificates = IF extras THEN Some(Certificates(MaxList)) ELSE None,
                !.mint = IF extras THEN Some(Policies(1)) ELSE None,
                !.required_signers = IF extras THEN Some(<<71, 72>>) ELSE None,
                !.withdrawals = IF extras THEN Some(Withdrawals) ELSE None,
                !.update = IF extras THEN Some(ProtocolUpdate) ELSE None]
    IN  [f \in DOMAIN b \ {"collateral_return"} |-> b[f]]

LegacyTxs ==
    {Tx(LegacyBody(21, TxInputs(1), outs, extras), aux, ws) :
        outs \in SeqsUpTo(LegacyOutputKinds, MaxList),
        extras \in BOOLEAN,
        aux \in {None, Some(FullAuxData),
                 Some([variant |-> "Shelley", data |-> Metadata(1), raw_cbor_len |-> 9])},
        ws \in {None, Some(LegacyWitnessSet(FullWitnessSet)),
                Some(LegacyWitnessSet(EmptyWitnessSet))}}

LegacyCoreTxs ==
    {Tx(LegacyBody(22, TxInputs(MaxList), <<LegacyOutput(AddressBytes(TRUE, 1), CoinValue(7), None)>>,
                   TRUE),
        Some(FullAuxData), Some(LegacyWitnessSet(FullWitnessSet))),
     Tx(LegacyBody(23, TxInputs(1), <<LegacyOutput(AddressBytes(FALSE, 6), CoinValue(6), None)>>,
                   FALSE),
        None, Some(LegacyWitnessSet(EmptyWitnessSet))),
     Tx(LegacyBody(24, <<>>, <<>>, FALSE), Some(FullAuxData), None),
     Tx(LegacyBody(25, TxInputs(1), <<LegacyOutput(AddressBytes(TRUE, 3), CoinValue(8), None)>>,
                   FALSE),
        None, None)}

LegacyTxLists ==
    {<<>>} \cup {<<t>> : t \in LegacyTxs}
    \cup {txs \in UNION {[1..k -> LegacyCoreTxs] : k \in 2..MaxTxs} : DenseWitnesses(txs)}

LegacyBlocks == {MintedBlock(txs) : txs \in LegacyTxLists}

(***************************************************************************)
(* The collections the batch collectors are run on: lists of at most       *)
(* MaxList elements drawn from a few element values, so that a list can be *)
(* empty, hold the same element twice or hold two elements in either       *)
(* order, and optional lists that can also be absent.                      *)
(***************************************************************************)
OptSeqsUpTo(S) == {None} \cup {Some(s) : s \in SeqsUpTo(S, MaxList)}

InputSources == SeqsUpTo({TxInputs(2)[i] : i \in 1..2}, MaxList)

OutputSources == SeqsUpTo(OutputKinds, MaxList)

LegacyOutputSources == SeqsUpTo(LegacyOutputKinds, MaxList)

\* a policy with one asset, one with two and one with none
MintSources ==
    SeqsUpTo({Policies(2)[1], Policies(2)[2], [policy |-> 3, assets |-> <<>>]}, MaxList)

\* the reward movements: from either source to either kind of target
MoveCertificates ==
    {[tag |-> "MoveInstantaneousRewardsCert", source |-> s, target |-> tg] :
        s \in {"Reserves", "Treasury"},
        tg \in {[tag |-> "OtherAccountingPot", coin |-> 42],
                [tag |-> "StakeCredentials",
                 creds |-> <<<<Credential(1), 5>>, <<Credential(2), 0 - 3>>>>]}}

CertificateSources ==
    SeqsUpTo({CertificateAt(i) : i \in 1..4} \cup MoveCertificates, MaxList)

WithdrawalSources == SeqsUpTo({Withdrawals[i] : i \in 1..2}, MaxList)

\* a metadata map with a key of every shape
KeyedMetadata ==
    <<725, [tag |-> "Map",
            entries |-> <<<<[tag |-> "Int", v |-> 7], [tag |-> "Text", v |-> "a"]>>,
                          <<[tag |-> "Bytes", v |-> 8], [tag |-> "Int", v |-> 1]>>,
                          <<[tag |-> "Text", v |-> "t"], [tag |-> "Int", v |-> 2]>>,
                          <<[tag |-> "Map", entries |-> <<>>], [tag |-> "Int", v |-> 3]>>,
                          <<[tag |-> "Array", items |-> <<>>], [tag |-> "Int", v |-> 4]>>>>]>>

MetadataEntries == {Metadata(2)[i] : i \in 1..2} \cup {KeyedMetadata}

MetadataSources ==
    {PostAlonzoAuxData(m, None, None) : m \in OptSeqsUpTo(MetadataEntries)}
    \cup {[variant |-> "Shelley", data |-> m, raw_cbor_len |-> 9] :
            m \in SeqsUpTo(MetadataEntries, MaxList)}
    \cup {[variant |-> "ShelleyMa", transaction_metadata |-> m, raw_cbor_len |-> 9] :
            m \in SeqsUpTo(MetadataEntries, MaxList)}

VKeyWitnessSources == OptSeqsUpTo({VKeyWitnesses(2)[i] : i \in 1..2})

NativeScriptSources == OptSeqsUpTo({Scripts(340, 2)[i] : i \in 1..2})

PlutusV1ScriptSources == OptSeqsUpTo({Scripts(350, 2)[i] : i \in 1..2})

RedeemerSources == OptSeqsUpTo({Redeemers(2)[i] : i \in 1..2})

PlutusDataSources == OptSeqsUpTo({WitnessDatums(2)[i] : i \in 1..2})

RequiredSignerSources == SeqsUpTo({71, 72}, MaxList)

\* the collectors whose argument is an optional list
OptionCollectors ==
    {"collect_vkey_witness_records", "collect_vkey_witness_records_babbage",
     "collect_native_witness_records", "collect_native_witness_records_babbage",
     "collect_plutus_v1_witness_records", "collect_plutus_v1_witness_records_babbage",
     "collect_plutus_redeemer_records", "collect_plutus_redeemer_records_2",
     "collect_witness_plutus_datum_records", "collect_witness_plutus_datum_records_babbage"}

Collectors ==
    {"collect_input_records", "collect_legacy_output_records", "collect_any_output_records",
     "collect_mint_records", "collect_certificate_records", "collect_withdrawal_records",
     "collect_metadata_records", "collect_required_signers_records"}
    \cup OptionCollectors

\* the arguments collector c is run on
SourcesOf(c) ==
    CASE c = "collect_input_records"            -> InputSources
      [] c = "collect_legacy_output_records"    -> LegacyOutputSources
      [] c = "collect_any_output_records"       -> OutputSources
      [] c = "collect_mint_records"             -> MintSources
      [] c = "collect_certificate_records"      -> CertificateSources
      [] c = "collect_withdrawal_records"       -> WithdrawalSources
      [] c = "collect_metadata_records"         -> MetadataSources
      [] c = "collect_required_signers_records" -> RequiredSignerSources
      [] c \in {"collect_vkey_witness_records", "collect_vkey_witness_records_babbage"}
                                                -> VKeyWitnessSources
      [] c \in {"collect_native_witness_records", "collect_native_witness_records_babbage"}
                                                -> NativeScriptSources
      [] c \in {"collect_plutus_v1_witness_records",
                "collect_plutus_v1_witness_records_babbage"}
                                                -> PlutusV1ScriptSources
      [] c \in {"collect_plutus_redeemer_records", "collect_plutus_redeemer_records_2"}
                                                -> RedeemerSources
      [] c \in {"collect_witness_plutus_datum_records",
                "collect_witness_plutus_datum_records_babbage"}
                                                -> PlutusDataSources

(***************************************************************************)
(* sinks/aws_s3_sqs: the sink that stores every block in S3 and announces  *)
(* it on SQS.                                                              *)
(***************************************************************************)
Naming ==
    {"Hash", "SlotHash", "BlockHash", "BlockNumber", "EpochHash", "EpochSlotHash",
     "EpochBlockHash"}

ContentType == {"Cbor", "CborHex", "Json"}

\* Option::unwrap_or_default of the epoch
EpochOrDefault(record) == IF IsSome(record.epoch) THEN Unwrap(record.epoch) ELSE 0

\* format!: the key is the sequence of the formatted parts
define_obj_key(prefix, policy, record) ==
    CASE policy = "Hash"           -> <<prefix, record.hash>>
      [] policy = "SlotHash"       -> <<prefix, record.slot, ".", record.hash>>
      [] policy = "BlockHash"      -> <<prefix, record.number, ".", record.hash>>
      [] policy = "BlockNumber"    -> <<record.number>>
      [] policy = "EpochHash"      -> <<prefix, EpochOrDefault(record), ".", record.hash>>
      [] policy = "EpochSlotHash"  ->
            <<prefix, EpochOrDefault(record), ".", record.slot, ".", record.hash>>
      [] policy = "EpochBlockHash" ->
            <<prefix, EpochOrDefault(record), ".", record.number, ".", record.hash>>

\* encode_block with the JSON of a record rendered without its block bytes
encode_block_json_without_cbor(content_type, record) ==
    CASE content_type = "Json"         -> Ok(ToJson(record))
      [] record.cbor_hex = None        -> Failure("panic")
      [] content_type = "Cbor"         -> Ok(Unwrap(record.cbor_hex)[2])
      [] content_type = "CborHex"      -> Ok(<<"bytes", Unwrap(record.cbor_hex)>>)

\* the body of the S3 object; hex::decode undoes the hex encoding of the mapper
encode_block(content_type, record) ==
    CASE record.cbor_hex = None        -> Failure("panic")
      [] content_type = "Cbor"         -> Ok(Unwrap(record.cbor_hex)[2])
      [] content_type = "CborHex"      -> Ok(<<"bytes", Unwrap(record.cbor_hex)>>)
      [] content_type = "Json"         -> Ok(ToJson(record))

SqsMessage(key, record, tip) ==
    ToJson([s3_key |-> key, block_hash |-> record.hash,
            previous_hash |-> record.previous_hash, block_number |-> record.number,
            slot |-> record.slot, tip |-> tip])

\* the request that send_s3_object sends
PutObject(key, body, ok) ==
    [op |-> "put_object", key |-> key, body |-> body, dedup |-> None, ok |-> ok]

\* the request that send_sqs_message sends; the deduplication id of a FIFO
\* queue is the key
SendMessage(fifo, key, body, ok) ==
    [op |-> "send_message", key |-> key, body |-> body,
     dedup |-> IF fifo THEN Some(key) ELSE None, ok |-> ok]

\* utils.track_sink_progress(&event)
TrackSinkProgress(event) ==
    [op |-> "track_sink_progress", key |-> None, body |-> event, dedup |-> None, ok |-> TRUE]

(***************************************************************************)
(* The event streams handed to the sink: Block events of three blocks, two *)
(* of which have the same number and different hashes and one of which was *)
(* mapped without its bytes, and events of other kinds.                    *)
(***************************************************************************)
SinkBlock(id, number) ==
    [MintedBlock(<<>>) EXCEPT !.header.id = id,
                              !.header.header_body.block_number = number,
                              !.header.header_body.slot = 1000 + id]

SinkBlockRecord(id, number, cbor) ==
    to_babbage_block_record(
        [include_block_details |-> FALSE, include_transaction_details |-> FALSE,
         include_block_cbor |-> cbor, include_transaction_end_events |-> FALSE,
         include_block_end_events |-> FALSE],
        SinkBlock(id, number), OriginalHash(SinkBlock(id, number).header),
        SinkBlock(id, number).cbor).val

SinkEvent(kind, id, number, cbor) ==
    append([DefaultContext EXCEPT !.block_number = Some(number), !.slot = Some(1000 + id)],
           [kind |-> kind, record |-> SinkBlockRecord(id, number, cbor)]).events[1]

SinkEvents ==
    {SinkEvent("Block", 1, 5, TRUE), SinkEvent("Block", 2, 5, TRUE),
     SinkEvent("Block", 3, 6, FALSE), SinkEvent("BlockEnd", 1, 5, TRUE),
     append(DefaultContext, [kind |-> "RollBack",
                             record |-> [block_slot |-> 1001, block_hash |-> 1]]).events[1]}

SinkStreams == SeqsUpTo(SinkEvents, MaxEvents)

\* the settings of the sink that its client keeps
SinkConfigs ==
    [s3_naming : Naming, s3_content : ContentType, sqs_fifo : BOOLEAN, s3_prefix : {"blocks/"}]

\* the switches the converters read
ConvertConfigs ==
    {c \in Configs : /\ ~c.include_transaction_end_events
                     /\ ~c.include_block_end_events}

(***************************************************************************)
(* The crawl of one block as a state machine.                              *)
(***************************************************************************)
VARIABLES
    block,      \* the decoded block handed to the mapper
    config,     \* the mapper's switches
    context,    \* the EventContext of the writer that crawls the block
    record,     \* the BlockRecord held by crawl_babbage_block, None before
    output,     \* the events appended to the output channel, in order
    idx,        \* position of the next transaction of the loop
    pc,         \* where the crawl is
    result      \* "running", or what the crawl returned: "ok", "err", "panic"

vars == <<block, config, context, record, output, idx, pc, result>>

Init ==
    /\ block \in Blocks
    /\ config \in Configs
    /\ context = DefaultContext
    /\ record = None
    /\ output = <<>>
    /\ idx = 0
    /\ pc = "crawl_babbage_with_cbor"
    /\ result = "running"

\* Finish with the events of the last step left out of the stream
FinishWithoutEvents(events, status) ==
    /\ output' = output
    /\ result' = status
    /\ pc' = "done"

Finish(events, status) ==
    /\ output' = output \o events
    /\ result' = status
    /\ pc' = "done"

\* crawl_babbage_with_cbor: the child writer that carries the block coordinates
CrawlBabbageWithCbor ==
    /\ pc = "crawl_babbage_with_cbor"
    /\ context' = child_writer(context,
            [DefaultContext EXCEPT
                !.block_hash   = Some(ToHex(OriginalHash(block.header))),
                !.block_number = Some(block.header.header_body.block_number),
                !.slot         = Some(block.header.header_body.slot),
                !.timestamp    = compute_timestamp(block.header.header_body.slot)])
    /\ pc' = "crawl_babbage_block"
    /\ UNCHANGED <<block, config, record, output, idx, result>>

\* CrawlBabbageBlock with the record kept for the BlockEnd event stripped of
\* its transaction list
CrawlBabbageBlockKeepingSummary ==
    /\ pc = "crawl_babbage_block"
    /\ LET r == to_babbage_block_record(config, block, OriginalHash(block.header), block.cbor)
       IN  IF r.status = "ok"
           THEN /\ record' = Some([r.val EXCEPT !.transactions = None])
                /\ output' = output \o append(context, [kind |-> "Block", record |-> r.val]).events
                /\ pc' = "transactions"
                /\ UNCHANGED result
           ELSE /\ Finish(<<>>, r.status)
                /\ UNCHANGED record
    /\ UNCHANGED <<block, config, context, idx>>

\* crawl_babbage_block up to its loop: the block record and the Block event
CrawlBabbageBlock ==
    /\ pc = "crawl_babbage_block"
    /\ LET r == to_babbage_block_record(config, block, OriginalHash(block.header), block.cbor)
       IN  IF r.status = "ok"
           THEN /\ record' = Some(r.val)
                /\ output' = output \o append(context, [kind |-> "Block", record |-> r.val]).events
                /\ pc' = "transactions"
                /\ UNCHANGED result
           ELSE /\ Finish(<<>>, r.status)
                /\ UNCHANGED record
    /\ UNCHANGED <<block, config, context, idx>>

\* CrawlBabbageTransaction with the transaction crawled by the block's writer
\* in place of the child writer made for it
CrawlBabbageTransactionByParent ==
    /\ pc = "transactions"
    /\ idx < Len(block.transaction_bodies)
    /\ LET tx    == block.transaction_bodies[idx + 1]
           r     == crawl_babbage_transaction(context, config, tx, TxHashHex(tx),
                        FindAuxData(block, idx), GetWitnessSet(block, idx))
       IN  IF r.status = "ok"
           THEN /\ output' = output \o r.events
                /\ idx' = idx + 1
                /\ UNCHANGED <<pc, result>>
           ELSE /\ Finish(r.events, r.status)
                /\ UNCHANGED idx
    /\ UNCHANGED <<block, config, context, record>>

\* one turn of the loop of crawl_babbage_block: the crawl of transaction idx
CrawlBabbageTransaction ==
    /\ pc = "transactions"
    /\ idx < Len(block.transaction_bodies)
    /\ LET tx    == block.transaction_bodies[idx + 1]
           child == child_writer(context,
                        [DefaultContext EXCEPT !.tx_idx  = Some(idx),
                                               !.tx_hash = Some(TxHashHex(tx))])
           r     == crawl_babbage_transaction(child, config, tx, TxHashHex(tx),
                        FindAuxData(block, idx), GetWitnessSet(block, idx))
       IN  IF r.status = "ok"
           THEN /\ output' = output \o r.events
                /\ idx' = idx + 1
                /\ UNCHANGED <<pc, result>>
           ELSE /\ Finish(r.events, r.status)
                /\ UNCHANGED idx
    /\ UNCHANGED <<block, config, context, record>>

\* the end of crawl_babbage_block with the BlockEnd event put in front of the stream
CrawlBabbageBlockEndInFront ==
    /\ pc = "transactions"
    /\ idx = Len(block.transaction_bodies)
    /\ output' = (IF config.include_block_end_events
                  THEN append(context, [kind |-> "BlockEnd", record |-> Unwrap(record)]).events
                  ELSE <<>>) \o output
    /\ result' = "ok"
    /\ pc' = "done"
    /\ UNCHANGED <<block, config, context, record, idx>>

\* the end of crawl_babbage_block: the BlockEnd event and the return
CrawlBabbageBlockEnd ==
    /\ pc = "transactions"
    /\ idx = Len(block.transaction_bodies)
    /\ Finish(IF config.include_block_end_events
              THEN append(context, [kind |-> "BlockEnd", record |-> Unwrap(record)]).events
              ELSE <<>>, "ok")
    /\ UNCHANGED <<block, config, context, record, idx>>

Next ==
    \/ CrawlBabbageWithCbor
    \/ CrawlBabbageBlock
    \/ CrawlBabbageTransaction
    \/ CrawlBabbageBlockEnd

Spec == Init /\ [][Next]_vars

(***************************************************************************)
(* The conversion of one block into its record, transaction by             *)
(* transaction, by the Babbage converter or by the converter of the eras   *)
(* before it.  pc names the collector that runs, output holds the          *)
(* TransactionRecords collected so far and record the BlockRecord.         *)
(***************************************************************************)
InitConvert ==
    /\ pc \in {"collect_babbage_tx_records", "collect_shelley_tx_records"}
    /\ block \in (IF pc = "collect_babbage_tx_records" THEN Blocks ELSE LegacyBlocks)
    /\ config \in ConvertConfigs
    /\ context = DefaultContext
    /\ record = None
    /\ output = <<>>
    /\ idx = 0
    /\ result = "running"

\* what one turn of a collector does with the conversion of transaction idx
Collected(r) ==
    /\ IF r.status = "ok"
       THEN /\ output' = Append(output, r.val)
            /\ idx' = idx + 1
            /\ UNCHANGED result
       ELSE /\ result' = r.status
            /\ UNCHANGED <<output, idx>>
    /\ UNCHANGED <<block, config, context, record, pc>>

\* one turn of collect_babbage_tx_records, which to_babbage_block_record calls
\* when include_block_details is set
ToBabbageTransactionRecord ==
    /\ pc = "collect_babbage_tx_records"
    /\ result = "running"
    /\ config.include_block_details
    /\ idx < Len(block.transaction_bodies)
    /\ Collected(BabbageTxRecordAt(config, block, idx))

\* one turn of collect_shelley_tx_records, which to_block_record calls when
\* include_block_details is set
ToTransactionRecord ==
    /\ pc = "collect_shelley_tx_records"
    /\ result = "running"
    /\ config.include_block_details
    /\ idx < Len(block.transaction_bodies)
    /\ Collected(ShelleyTxRecordAt(config, block, idx))

\* what the block converter returns once its collector has returned
Converted(r) ==
    /\ result' = r.status
    /\ record' = IF r.status = "ok" THEN Some(r.val) ELSE None
    /\ UNCHANGED <<block, config, context, output, idx, pc>>

ToBabbageBlockRecord ==
    /\ pc = "collect_babbage_tx_records"
    /\ result = "running"
    /\ config.include_block_details => idx = Len(block.transaction_bodies)
    /\ Converted(to_babbage_block_record(config, block, OriginalHash(block.header), block.cbor))

ToBlockRecord ==
    /\ pc = "collect_shelley_tx_records"
    /\ result = "running"
    /\ config.include_block_details => idx = Len(block.transaction_bodies)
    /\ Converted(to_block_record(config, block, OriginalHash(block.header), block.cbor, "Alonzo"))

NextConvert ==
    \/ ToBabbageTransactionRecord
    \/ ToTransactionRecord
    \/ ToBabbageBlockRecord
    \/ ToBlockRecord

SpecConvert == InitConvert /\ [][NextConvert]_vars

(***************************************************************************)
(* The batch collectors, each run on one collection.  pc names the         *)
(* collector that is called, block holds the collection handed to it,      *)
(* output the list it returns and result how it returns.                   *)
(***************************************************************************)
InitCollect ==
    /\ pc \in Collectors
    /\ block \in SourcesOf(pc)
    /\ config \in {c \in ConvertConfigs : /\ ~c.include_block_details
                                          /\ ~c.include_transaction_details
                                          /\ ~c.include_block_cbor}
    /\ context = DefaultContext
    /\ record = None
    /\ output = <<>>
    /\ idx = 0
    /\ result = "running"

\* what the call of a collector that returns r does
Returned(r) ==
    /\ result = "running"
    /\ result' = r.status
    /\ output' = IF r.status = "ok" THEN r.val ELSE <<>>
    /\ UNCHANGED <<block, config, context, record, idx, pc>>

CollectInputRecords ==
    /\ pc = "collect_input_records"
    /\ Returned(Ok(collect_input_records(block)))

CollectLegacyOutputRecords ==
    /\ pc = "collect_legacy_output_records"
    /\ Returned(collect_legacy_output_records(block))

CollectAnyOutputRecords ==
    /\ pc = "collect_any_output_records"
    /\ Returned(collect_any_output_records(block))

CollectMintRecords ==
    /\ pc = "collect_mint_records"
    /\ Returned(Ok(collect_mint_records(block)))

CollectCertificateRecords ==
    /\ pc = "collect_certificate_records"
    /\ Returned(Ok(collect_certificate_records(block)))

CollectWithdrawalRecords ==
    /\ pc = "collect_withdrawal_records"
    /\ Returned(Ok(collect_withdrawal_records(block)))

CollectMetadataRecords ==
    /\ pc = "collect_metadata_records"
    /\ Returned(collect_metadata_records(block))

CollectRequiredSignersRecords ==
    /\ pc = "collect_required_signers_records"
    /\ Returned(collect_required_signers_records(block))

CollectVkeyWitnessRecords ==
    /\ pc = "collect_vkey_witness_records"
    /\ Returned(collect_vkey_witness_records(block))

CollectVkeyWitnessRecordsBabbage ==
    /\ pc = "collect_vkey_witness_records_babbage"
    /\ Returned(collect_vkey_witness_records_babbage(block))

CollectNativeWitnessRecords ==
    /\ pc = "collect_native_witness_records"
    /\ Returned(collect_native_witness_records(block))

CollectNativeWitnessRecordsBabbage ==
    /\ pc = "collect_native_witness_records_babbage"
    /\ Returned(collect_native_witness_records_babbage(block))

CollectPlutusV1WitnessRecords ==
    /\ pc = "collect_plutus_v1_witness_records"
    /\ Returned(collect_plutus_v1_witness_records(block))

CollectPlutusV1WitnessRecordsBabbage ==
    /\ pc = "collect_plutus_v1_witness_records_babbage"
    /\ Returned(collect_plutus_v1_witness_records_babbage(block))

CollectPlutusRedeemerRecords ==
    /\ pc = "collect_plutus_redeemer_records"
    /\ Returned(collect_plutus_redeemer_records(block))

CollectPlutusRedeemerRecords2 ==
    /\ pc = "collect_plutus_redeemer_records_2"
    /\ Returned(collect_plutus_redeemer_records_2(block))

CollectWitnessPlutusDatumRecords ==
    /\ pc = "collect_witness_plutus_datum_records"
    /\ Returned(collect_witness_plutus_datum_records(block))

CollectWitnessPlutusDatumRecordsBabbage ==
    /\ pc = "collect_witness_plutus_datum_records_babbage"
    /\ Returned(collect_witness_plutus_datum_records_babbage(block))

NextCollect ==
    \/ CollectInputRecords
    \/ CollectLegacyOutputRecords
    \/ CollectAnyOutputRecords
    \/ CollectMintRecords
    \/ CollectCertificateRecords
    \/ CollectWithdrawalRecords
    \/ CollectMetadataRecords
    \/ CollectRequiredSignersRecords
    \/ CollectVkeyWitnessRecords
    \/ CollectVkeyWitnessRecordsBabbage
    \/ CollectNativeWitnessRecords
    \/ CollectNativeWitnessRecordsBabbage
    \/ CollectPlutusV1WitnessRecords
    \/ CollectPlutusV1WitnessRecordsBabbage
    \/ CollectPlutusRedeemerRecords
    \/ CollectPlutusRedeemerRecords2
    \/ CollectWitnessPlutusDatumRecords
    \/ CollectWitnessPlutusDatumRecordsBabbage

SpecCollect == InitCollect /\ [][NextCollect]_vars

(***************************************************************************)
(* A block converter called again and again on the same block by the same  *)
(* writer.  pc names the converter, idx counts its calls, output holds     *)
(* what each call has returned and record the record of the last call.     *)
(***************************************************************************)
InitRepeat ==
    /\ pc \in {"to_babbage_block_record", "to_block_record"}
    /\ block \in (IF pc = "to_babbage_block_record" THEN Blocks ELSE LegacyBlocks)
    /\ config \in ConvertConfigs
    /\ context = DefaultContext
    /\ record = None
    /\ output = <<>>
    /\ idx = 0
    /\ result = "running"

\* what a call that returns r does; a panic ends the thread of the writer
Called(r) ==
    /\ idx < MaxCalls
    /\ result # "panic"
    /\ idx' = idx + 1
    /\ result' = r.status
    /\ record' = IF r.status = "ok" THEN Some(r.val) ELSE None
    /\ output' = Append(output, r)
    /\ UNCHANGED <<block, config, context, pc>>

RepeatToBabbageBlockRecord ==
    /\ pc = "to_babbage_block_record"
    /\ Called(to_babbage_block_record(config, block, OriginalHash(block.header), block.cbor))

\* RepeatToBlockRecord with a converter that counts the transactions of all
\* the blocks it has converted
RepeatToBlockRecordCountingCalls ==
    /\ pc = "to_block_record"
    /\ LET r == to_block_record(config, block, OriginalHash(block.header), block.cbor, "Alonzo")
       IN  Called(IF r.status = "ok"
                  THEN Ok([r.val EXCEPT !.tx_count = @ + idx * Len(block.transaction_bodies)])
                  ELSE r)

RepeatToBlockRecord ==
    /\ pc = "to_block_record"
    /\ Called(to_block_record(config, block, OriginalHash(block.header), block.cbor, "Alonzo"))

NextRepeat ==
    \/ RepeatToBabbageBlockRecord
    \/ RepeatToBlockRecord

SpecRepeat == InitRepeat /\ [][NextRepeat]_vars

(***************************************************************************)
(* The writer loop of the S3/SQS sink.  block holds the stream of events   *)
(* handed to the sink, idx counts the events it has taken, context and     *)
(* record are those of the Block event being sent, output lists the        *)
(* requests sent to S3 and SQS and the progress reports, in their order,   *)
(* pc is the point the loop has reached and result how it has returned.    *)
(***************************************************************************)
InitSink ==
    /\ block \in SinkStreams
    /\ config \in SinkConfigs
    /\ context = DefaultContext
    /\ record = None
    /\ output = <<>>
    /\ idx = 0
    /\ pc = "writer_loop"
    /\ result = "running"

\* get_s3_key
S3Key == define_obj_key(config.s3_prefix, config.s3_naming, Unwrap(record))

\* the return of writer_loop, or its panic
Return(status) ==
    /\ result' = status
    /\ pc' = "done"

\* for event in input.iter(): an event that is not a Block event is passed
\* over, the record of a Block event is handed to send_block
ReceiveEvent ==
    /\ pc = "writer_loop"
    /\ idx < Len(block)
    /\ IF block[idx + 1].data.kind = "Block"
       THEN /\ record' = Some(block[idx + 1].data.record)
            /\ context' = block[idx + 1].context
            /\ pc' = "send_s3_object"
            /\ UNCHANGED idx
       ELSE /\ idx' = idx + 1
            /\ UNCHANGED <<record, context, pc>>
    /\ UNCHANGED <<block, config, output, result>>

\* the input stream is closed: the loop ends and writer_loop returns Ok
InputClosed ==
    /\ pc = "writer_loop"
    /\ idx = Len(block)
    /\ Return("ok")
    /\ UNCHANGED <<block, config, context, record, output, idx>>

\* SendS3Object with the message sent whether or not the put has succeeded
SendS3ObjectThenMessage ==
    /\ pc = "send_s3_object"
    /\ LET content == encode_block(config.s3_content, Unwrap(record))
       IN  IF content.status # "ok"
           THEN /\ Return(content.status)
                /\ UNCHANGED output
           ELSE \E ok \in BOOLEAN :
                  /\ output' = Append(output, PutObject(S3Key, content.val, ok))
                  /\ pc' = "send_sqs_message"
                  /\ UNCHANGED result
    /\ UNCHANGED <<block, config, context, record, idx>>

\* send_s3_object: the body is encoded, then the put is sent and awaited
SendS3Object ==
    /\ pc = "send_s3_object"
    /\ LET content == encode_block(config.s3_content, Unwrap(record))
       IN  IF content.status # "ok"
           THEN /\ Return(content.status)
                /\ UNCHANGED output
           ELSE \E ok \in BOOLEAN :
                  /\ output' = Append(output, PutObject(S3Key, content.val, ok))
                  /\ IF ok
                     THEN pc' = "send_sqs_message" /\ UNCHANGED result
                     ELSE Return("err")
    /\ UNCHANGED <<block, config, context, record, idx>>

\* SendSqsMessage with a failed send logged and the loop going on
SendSqsMessageAndGoOn ==
    /\ pc = "send_sqs_message"
    /\ \E ok \in BOOLEAN, tip \in {None, Some(9)} :
          /\ output' = Append(output,
                  SendMessage(config.sqs_fifo, S3Key, SqsMessage(S3Key, Unwrap(record), tip), ok))
          /\ IF ok
             THEN pc' = "track_sink_progress" /\ UNCHANGED <<idx, record>>
             ELSE pc' = "writer_loop" /\ idx' = idx + 1 /\ record' = None
    /\ UNCHANGED <<block, config, context, result>>

\* send_sqs_message: the message is sent and awaited
SendSqsMessage ==
    /\ pc = "send_sqs_message"
    /\ \E ok \in BOOLEAN, tip \in {None, Some(9)} :
          /\ output' = Append(output,
                  SendMessage(config.sqs_fifo, S3Key, SqsMessage(S3Key, Unwrap(record), tip), ok))
          /\ IF ok
             THEN pc' = "track_sink_progress" /\ UNCHANGED result
             ELSE Return("err")
    /\ UNCHANGED <<block, config, context, record, idx>>

\* SinkProgress with the report made before the block is sent
ReportProgressFirst ==
    /\ pc = "track_sink_progress"
    /\ output' = <<TrackSinkProgress(block[idx + 1])>> \o output
    /\ idx' = idx + 1
    /\ record' = None
    /\ pc' = "writer_loop"
    /\ UNCHANGED <<block, config, context, result>>

\* Ok(_) => utils.track_sink_progress(&event), and the next turn of the loop
SinkProgress ==
    /\ pc = "track_sink_progress"
    /\ output' = Append(output, TrackSinkProgress(block[idx + 1]))
    /\ idx' = idx + 1
    /\ record' = None
    /\ pc' = "writer_loop"
    /\ UNCHANGED <<block, config, context, result>>

NextSink ==
    \/ ReceiveEvent
    \/ InputClosed
    \/ SendS3Object
    \/ SendSqsMessage
    \/ SinkProgress

SpecSink == InitSink /\ [][NextSink]_vars

(***************************************************************************)
(* Reading the event stream.                                               *)
(***************************************************************************)
EventKind(e) == e.data.kind

CertificateKinds ==
    {"StakeRegistration", "StakeDeregistration", "StakeDelegation", "PoolRegistration",
     "PoolRetirement", "GenesisKeyDelegation", "MoveInstantaneousRewardsCert"}

AuxDataKinds == {"Metadata", "NativeScript", "PlutusScript"}

WitnessKinds == {"VKeyWitness", "NativeWitness", "PlutusWitness", "PlutusRedeemer", "PlutusDatum"}

NumTxs == Len(block.transaction_bodies)

BodyAt(i) == block.transaction_bodies[i + 1]

\* the events whose context names transaction i, in stream order
EventsOfTx(i) == SelectSeq(output, LAMBDA e : e.context.tx_idx = Some(i))

OfKinds(evs, kinds) == SelectSeq(evs, LAMBDA e : EventKind(e) \in kinds)

DataOf(evs) == MapSeq(evs, LAMBDA e : e.data)

RecordsOfKind(evs, kind) == MapSeq(OfKinds(evs, {kind}), LAMBDA e : e.data.record)

\* crawl_babbage_transaction has returned Ok for transaction i
Completed(i) == i < idx

IsPrefix(s, t) == Len(s) <= Len(t) /\ s = SubSeq(t, 1, Len(s))

\* the datum records of the witness set of transaction i
WitnessDatumRecords(i) ==
    IF IsSome(GetWitnessSet(block, i)) /\ IsSome(Unwrap(GetWitnessSet(block, i)).plutus_data)
    THEN MapSeq(Unwrap(Unwrap(GetWitnessSet(block, i)).plutus_data),
                LAMBDA d : to_plutus_datum_record(d).val)
    ELSE <<>>

IsWitnessDatum(e, i) ==
    /\ EventKind(e) = "PlutusDatum"
    /\ \E j \in 1..Len(WitnessDatumRecords(i)) : WitnessDatumRecords(i)[j] = e.data.record

\* the group of section 4.3 (a..i) an event of transaction i belongs to
Group(e, i) ==
    CASE EventKind(e) = "Transaction"                -> 1
      [] EventKind(e) = "TxInput"                    -> 2
      [] EventKind(e) \in {"TxOutput", "OutputAsset"} -> 3
      [] EventKind(e) = "PlutusDatum"                -> IF IsWitnessDatum(e, i) THEN 8 ELSE 3
      [] EventKind(e) \in CertificateKinds           -> 4
      [] EventKind(e) = "Collateral"                 -> 5
      [] EventKind(e) = "Mint"                       -> 6
      [] EventKind(e) \in AuxDataKinds               -> 7
      [] EventKind(e) \in WitnessKinds               -> 8
      [] EventKind(e) = "TransactionEnd"             -> 9
      [] OTHER                                       -> 0

GroupsOf(i) == {Group(EventsOfTx(i)[p], i) : p \in 1..Len(EventsOfTx(i))}

OptSeq(o) == IF IsSome(o) THEN Unwrap(o) ELSE <<>>

(***************************************************************************)
(* C1: the events of one transaction come in the fixed order of groups:    *)
(* Transaction, inputs, outputs, certificates, collateral, mints,          *)
(* auxiliary data, witness set, TransactionEnd; no event of a later group  *)
(* precedes an event of an earlier group, the inputs, outputs,             *)
(* certificates and collateral inputs are walked in their original order,  *)
(* auxiliary-data and witness events appear only if that section is        *)
(* present, and TransactionEnd only if it is enabled.                      *)
(***************************************************************************)
C1_GroupOrder ==
    \A i \in 0..(NumTxs - 1) :
        LET evs == EventsOfTx(i)
            tx  == BodyAt(i)
            outs == RecordsOfKind(evs, "TxOutput")
        IN  /\ \A p \in 1..Len(evs) : Group(evs[p], i) >= 1
            /\ \A p, q \in 1..Len(evs) : p < q => Group(evs[p], i) <= Group(evs[q], i)
            /\ evs # <<>> => EventKind(evs[1]) = "Transaction"
            /\ Len(OfKinds(evs, {"Transaction"})) <= 1
            /\ IsPrefix(RecordsOfKind(evs, "TxInput"), collect_input_records(tx.inputs))
            /\ Len(outs) <= Len(tx.outputs)
            /\ \A k \in 1..Len(outs) : outs[k] = AnyOutputRecord(tx.outputs[k]).val
            /\ IsPrefix(DataOf(OfKinds(evs, CertificateKinds)),
                        MapSeq(OptSeq(tx.certificates), to_certificate_event))
            /\ IsPrefix(DataOf(OfKinds(evs, {"Collateral"})),
                        MapSeq(OptSeq(tx.collateral), to_collateral_event))
            /\ IsPrefix(RecordsOfKind(evs, "Mint"), collect_mint_records(OptSeq(tx.mint)))
            /\ Completed(i) =>
                /\ Len(OfKinds(evs, {"Transaction"})) = 1
                /\ Len(OfKinds(evs, {"TxInput"})) = Len(tx.inputs)
                /\ Len(outs) = Len(tx.outputs)
                /\ Len(OfKinds(evs, CertificateKinds)) = Len(OptSeq(tx.certificates))
                /\ Len(OfKinds(evs, {"Collateral"})) = Len(OptSeq(tx.collateral))
                /\ Len(OfKinds(evs, {"Mint"})) = Len(collect_mint_records(OptSeq(tx.mint)))
            /\ 7 \in GroupsOf(i) => IsSome(FindAuxData(block, i))
            /\ 8 \in GroupsOf(i) => IsSome(GetWitnessSet(block, i))
            /\ Len(OfKinds(evs, {"TransactionEnd"})) <= 1
            /\ 9 \in GroupsOf(i) => config.include_transaction_end_events
            /\ (Completed(i) /\ config.include_transaction_end_events)
                    => EventKind(evs[Len(evs)]) = "TransactionEnd"

\* a crawled transaction with events of all nine groups
C1_Witness ==
    \E i \in 0..(NumTxs - 1) :
        /\ Completed(i)
        /\ GroupsOf(i) = 1..9
        /\ Len(BodyAt(i).inputs) >= 2
        /\ Len(OptSeq(BodyAt(i).certificates)) >= 2

(***************************************************************************)
(* C2: in the stream of a successful crawl the Block event is the first    *)
(* event and the only Block event, the events of the transactions follow   *)
(* in block order, those of one transaction next to each other, and the    *)
(* BlockEnd event, when enabled, is the last event.                        *)
(***************************************************************************)
C2_BlockStream ==
    result = "ok" =>
        /\ Len(output) >= 1
        /\ EventKind(output[1]) = "Block"
        /\ Len(OfKinds(output, {"Block"})) = 1
        \* only the Block event and a closing BlockEnd event are outside a transaction
        /\ \A p \in 1..Len(output) :
              output[p].context.tx_idx = None =>
                  \/ p = 1
                  \/ p = Len(output) /\ EventKind(output[p]) = "BlockEnd"
        \* the events of transaction i precede those of transaction j > i
        /\ \A p, q \in 1..Len(output) :
              (p < q /\ IsSome(output[p].context.tx_idx) /\ IsSome(output[q].context.tx_idx))
                  => Unwrap(output[p].context.tx_idx) <= Unwrap(output[q].context.tx_idx)
        \* the Transaction events are those of the bodies, in block order
        /\ MapSeq(RecordsOfKind(output, "Transaction"), LAMBDA r : r.hash)
              = [i \in 1..NumTxs |-> TxHashHex(block.transaction_bodies[i])]
        /\ \A i \in 0..(NumTxs - 1) :
              EventsOfTx(i) # <<>> /\ EventKind(EventsOfTx(i)[1]) = "Transaction"
        /\ config.include_block_end_events =>
              /\ EventKind(output[Len(output)]) = "BlockEnd"
              /\ Len(OfKinds(output, {"BlockEnd"})) = 1

\* a successful crawl of a block of several transactions that ends with BlockEnd
C2_Witness ==
    /\ result = "ok"
    /\ NumTxs >= 2
    /\ config.include_block_end_events
    /\ \A i \in 0..(NumTxs - 1) : Len(EventsOfTx(i)) >= 2

(***************************************************************************)
(* C3: when a transaction has a witness set, its crawl emits one           *)
(* VKeyWitness event per verification-key witness, one NativeWitness event *)
(* per native script, one PlutusWitness event per Plutus script, one       *)
(* PlutusRedeemer event per redeemer and one PlutusDatum event per witness *)
(* datum, in that order of kinds and in list order within each kind.       *)
(***************************************************************************)
WitnessSetAt(i) == Unwrap(GetWitnessSet(block, i))

\* the events of the witness-set group of transaction i
WitnessSetEvents(i) == SelectSeq(EventsOfTx(i), LAMBDA e : Group(e, i) = 8)

TagRecords(kind, rs) == [j \in 1..Len(rs) |-> [kind |-> kind, record |-> rs[j]]]

\* the records of the five witness lists, as the converter collects them
WitnessSetData(ws) ==
    TagRecords("VKeyWitness", collect_vkey_witness_records_babbage(ws.vkeywitness).val)
    \o TagRecords("NativeWitness", collect_native_witness_records_babbage(ws.native_script).val)
    \o TagRecords("PlutusWitness",
                  collect_plutus_v1_witness_records_babbage(ws.plutus_v1_script).val)
    \o TagRecords("PlutusRedeemer", collect_plutus_redeemer_records_2(ws.redeemer).val)
    \o TagRecords("PlutusDatum",
                  collect_witness_plutus_datum_records_babbage(ws.plutus_data).val)

C3_WitnessEvents ==
    \A i \in 0..(NumTxs - 1) :
        (Completed(i) /\ IsSome(GetWitnessSet(block, i)))
            => DataOf(WitnessSetEvents(i)) = WitnessSetData(WitnessSetAt(i))

(***************************************************************************)
(* C4: for every post-upgrade output the crawl emits the TxOutput event,   *)
(* then, if the output carries inline data, exactly one datum event, then  *)
(* one OutputAsset event per (policy, asset) entry of its value, all of    *)
(* them before the TxOutput event of the next output; a coin-only output   *)
(* without inline data produces the TxOutput event only.                   *)
(***************************************************************************)
\* the events of transaction i whose context names output k
EventsOfOutput(i, k) == SelectSeq(EventsOfTx(i), LAMBDA e : e.context.output_idx = Some(k))

HasInlineData(out) ==
    /\ out.variant = "PostAlonzo"
    /\ IsSome(out.datum_option)
    /\ Unwrap(out.datum_option).tag = "Data"

OutputValue(out) == IF out.variant = "Legacy" THEN out.amount ELSE out.value

InlineDatumData(out) ==
    IF HasInlineData(out)
    THEN <<[kind |-> "PlutusDatum",
            record |-> to_plutus_datum_record(Unwrap(out.datum_option).datum).val]>>
    ELSE <<>>

OutputAssetData(out) == TagRecords("OutputAsset", collect_asset_records(OutputValue(out)))

\* the events that come with an output are next to each other, output by output
OutputsInOrder(i) ==
    LET evs == SelectSeq(EventsOfTx(i), LAMBDA e : Group(e, i) = 3)
    IN  /\ \A p \in 1..Len(evs) : IsSome(evs[p].context.output_idx)
        /\ \A p, q \in 1..Len(evs) :
              p < q => Unwrap(evs[p].context.output_idx) <= Unwrap(evs[q].context.output_idx)

C4_DatumBeforeAssets ==
    \A i \in 0..(NumTxs - 1) :
        Completed(i) =>
            /\ OutputsInOrder(i)
            /\ \A k \in 1..Len(BodyAt(i).outputs) :
                  LET out == BodyAt(i).outputs[k]
                  IN  out.variant = "PostAlonzo" =>
                          DataOf(EventsOfOutput(i, k - 1))
                              = <<[kind |-> "TxOutput",
                                   record |-> to_post_alonzo_output_record(out).val]>>
                                \o InlineDatumData(out) \o OutputAssetData(out)

(***************************************************************************)
(* C5: a successful crawl of a transaction with I inputs, O outputs (A of  *)
(* them with inline data, M multi-asset entries in total), C certificates, *)
(* K collateral inputs, N mint entries and witness lists of total size W   *)
(* emits 1 + I + O + A + M + C + K + N + W events, one more if             *)
(* transaction-end events are enabled, plus one Metadata event per         *)
(* metadata label when auxiliary data is present.  The script events of    *)
(* the auxiliary data, for which the count has no term, are left out.      *)
(***************************************************************************)
CountWhere(s, P(_)) == Len(SelectSeq(s, P))

WitnessListSizes(i) ==
    IF IsSome(GetWitnessSet(block, i))
    THEN LET ws == WitnessSetAt(i)
         IN  Len(OptSeq(ws.vkeywitness)) + Len(OptSeq(ws.native_script))
             + Len(OptSeq(ws.plutus_v1_script)) + Len(OptSeq(ws.redeemer))
             + Len(OptSeq(ws.plutus_data))
    ELSE 0

MetadataLabels(i) ==
    IF IsSome(FindAuxData(block, i))
    THEN Len(OptSeq(AuxMetadata(Unwrap(FindAuxData(block, i)))))
    ELSE 0

EmissionCount(i) ==
    LET tx == BodyAt(i)
    IN  1 + Len(tx.inputs) + Len(tx.outputs)
        + CountWhere(tx.outputs, HasInlineData)
        + SumSeq([k \in 1..Len(tx.outputs) |-> Len(OutputAssetData(tx.outputs[k]))])
        + Len(OptSeq(tx.certificates)) + Len(OptSeq(tx.collateral))
        + Len(collect_mint_records(OptSeq(tx.mint)))
        + WitnessListSizes(i)
        + (IF config.include_transaction_end_events THEN 1 ELSE 0)
        + MetadataLabels(i)

C5_EmissionCount ==
    \A i \in 0..(NumTxs - 1) :
        Completed(i) =>
            CountWhere(EventsOfTx(i), LAMBDA e : EventKind(e) \notin {"NativeScript", "PlutusScript"})
                = EmissionCount(i)

\* C4 as the crawl walks an output: the assets come before the inline datum
C4_AssetsBeforeDatum ==
    \A i \in 0..(NumTxs - 1) :
        Completed(i) =>
            /\ OutputsInOrder(i)
            /\ \A k \in 1..Len(BodyAt(i).outputs) :
                  LET out == BodyAt(i).outputs[k]
                  IN  out.variant = "PostAlonzo" =>
                          DataOf(EventsOfOutput(i, k - 1))
                              = <<[kind |-> "TxOutput",
                                   record |-> to_post_alonzo_output_record(out).val]>>
                                \o OutputAssetData(out) \o InlineDatumData(out)

\* a crawled post-upgrade output with assets and inline data, a coin-only one after it
C4_Witness ==
    \E i \in 0..(NumTxs - 1) :
        /\ Completed(i)
        /\ Len(BodyAt(i).outputs) >= 2
        /\ HasInlineData(BodyAt(i).outputs[1])
        /\ Len(OutputAssetData(BodyAt(i).outputs[1])) >= 2
        /\ Len(EventsOfOutput(i, 0)) = 2 + Len(OutputAssetData(BodyAt(i).outputs[1]))
        /\ BodyAt(i).outputs[2].variant = "PostAlonzo"
        /\ Len(EventsOfOutput(i, 1)) = 1

(***************************************************************************)
(* C6: every event emitted while the transaction at position i is crawled  *)
(* carries tx_idx = i, the hash of that transaction and the hash, number   *)
(* and slot of the block, at any depth; the Block and BlockEnd events      *)
(* carry the same block hash, number and slot.                             *)
(***************************************************************************)
BlockCoordinates(c) ==
    /\ c.block_hash = Some(ToHex(OriginalHash(block.header)))
    /\ c.block_number = Some(block.header.header_body.block_number)
    /\ c.slot = Some(block.header.header_body.slot)

\* the events a step appends to the stream
Emitted == SubSeq(output', Len(output) + 1, Len(output'))

CrawlingTransaction == pc = "transactions" /\ idx < NumTxs

C6_Inheritance ==
    [][\A p \in 1..Len(Emitted) :
          /\ BlockCoordinates(Emitted[p].context)
          /\ CrawlingTransaction =>
                /\ Emitted[p].context.tx_idx = Some(idx)
                /\ Emitted[p].context.tx_hash = Some(TxHashHex(BodyAt(idx)))
          /\ EventKind(Emitted[p]) \notin {"Block", "BlockEnd"} => CrawlingTransaction]_vars

\* the second transaction of a block crawled down to the assets of an output,
\* and the stream closed by BlockEnd
C6_Witness ==
    /\ result = "ok"
    /\ EventKind(output[Len(output)]) = "BlockEnd"
    /\ \E p \in 1..Len(output) :
          /\ EventKind(output[p]) = "OutputAsset"
          /\ output[p].context.tx_idx = Some(1)
    /\ \E p \in 1..Len(output) :
          /\ EventKind(output[p]) \in CertificateKinds
          /\ output[p].context.tx_idx = Some(1)

(***************************************************************************)
(* C7: the TxOutput event of the output at position k, and each datum and  *)
(* OutputAsset event nested under it, has in its context output_idx = k    *)
(* and output_address = the rendered address of that output.               *)
(***************************************************************************)
OutputEvents(i) == SelectSeq(EventsOfTx(i), LAMBDA e : Group(e, i) = 3)

C7_OutputCoordinates ==
    \A i \in 0..(NumTxs - 1) :
        Completed(i) =>
            /\ MapSeq(OfKinds(EventsOfTx(i), {"TxOutput"}), LAMBDA e : e.context.output_idx)
                  = [k \in 1..Len(BodyAt(i).outputs) |-> Some(k - 1)]
            /\ \A p \in 1..Len(OutputEvents(i)) :
                  LET c == OutputEvents(i)[p].context
                  IN  /\ IsSome(c.output_idx)
                      /\ Unwrap(c.output_idx) < Len(BodyAt(i).outputs)
                      /\ c.output_address
                            = Some(AddressFromBytes(
                                     BodyAt(i).outputs[Unwrap(c.output_idx) + 1].address).val)

(***************************************************************************)
(* C8: no event carries a coordinate of a deeper or sibling node.  Block   *)
(* and BlockEnd events have no transaction, input, output or certificate   *)
(* coordinate; Transaction, TransactionEnd, Collateral, Mint,              *)
(* auxiliary-data and witness events have no input, output or certificate  *)
(* coordinate; the event of input k has input_idx = k and no output or     *)
(* certificate coordinate; the events of an output have no input or        *)
(* certificate coordinate; the event of certificate k has                  *)
(* certificate_idx = k and no input or output coordinate.                  *)
(***************************************************************************)
Unset(c, fields) == \A f \in fields : c[f] = None

IndexesInOrder(evs, field) ==
    MapSeq(evs, LAMBDA e : e.context[field]) = [k \in 1..Len(evs) |-> Some(k - 1)]

C8_NoForeignCoordinate ==
    /\ \A p \in 1..Len(output) :
          EventKind(output[p]) \in {"Block", "BlockEnd"} =>
              Unset(output[p].context, {"tx_idx", "tx_hash", "input_idx", "output_idx",
                                        "output_address", "certificate_idx"})
    /\ \A i \in 0..(NumTxs - 1) :
          LET evs == EventsOfTx(i)
          IN  /\ \A p \in 1..Len(evs) :
                    LET c == evs[p].context
                    IN  CASE Group(evs[p], i) = 2 ->
                               Unset(c, {"output_idx", "output_address", "certificate_idx"})
                          [] Group(evs[p], i) = 3 ->
                               Unset(c, {"input_idx", "certificate_idx"})
                          [] Group(evs[p], i) = 4 ->
                               Unset(c, {"input_idx", "output_idx", "output_address"})
                          [] OTHER ->
                               Unset(c, {"input_idx", "output_idx", "output_address",
                                         "certificate_idx"})
              /\ IndexesInOrder(OfKinds(evs, {"TxInput"}), "input_idx")
              /\ IndexesInOrder(OfKinds(evs, CertificateKinds), "certificate_idx")

\* a finished crawl of two transactions, the first with two inputs, two
\* certificates, collateral inputs, mints and witness events, the second
\* with an input of its own
C8_Witness ==
    /\ result = "ok"
    /\ NumTxs >= 2
    /\ Len(OfKinds(EventsOfTx(0), {"TxInput"})) >= 2
    /\ Len(OfKinds(EventsOfTx(0), {"TxOutput"})) >= 2
    /\ Len(OfKinds(EventsOfTx(0), CertificateKinds)) >= 2
    /\ Len(OfKinds(EventsOfTx(0), {"Collateral"})) >= 1
    /\ Len(OfKinds(EventsOfTx(0), {"Mint"})) >= 1
    /\ Len(OfKinds(EventsOfTx(0), WitnessKinds)) >= 1
    /\ Len(OfKinds(EventsOfTx(1), {"TxInput"})) >= 1

(***************************************************************************)
(* C9: in the converter of the older eras and in the Babbage converter     *)
(* the size of a TransactionRecord is the length of the body bytes, plus   *)
(* the length of the auxiliary-data bytes or 2 if the transaction has no   *)
(* auxiliary data, plus the length of the witness-set bytes or 1 if it has *)
(* no witness set.                                                         *)
(***************************************************************************)
AuxDataPresent(i) == \E j \in 1..Len(block.auxiliary_data_set) : block.auxiliary_data_set[j][1] = i

WitnessSetPresent(i) == i < Len(block.transaction_witness_sets)

ExpectedSize(i) ==
    BodyAt(i).raw_cbor_len
      + (IF AuxDataPresent(i) THEN Unwrap(FindAuxData(block, i)).raw_cbor_len ELSE 2)
      + (IF WitnessSetPresent(i) THEN block.transaction_witness_sets[i + 1].raw_cbor_len ELSE 1)

C9_SizeFormula ==
    /\ \A k \in 1..Len(output) : output[k].size = ExpectedSize(k - 1)
    /\ (IsSome(record) /\ config.include_block_details) =>
          /\ Len(Unwrap(Unwrap(record).transactions)) = NumTxs
          /\ \A k \in 1..NumTxs :
                Unwrap(Unwrap(record).transactions)[k].size = ExpectedSize(k - 1)

\* a converted block of the older eras with a transaction that has auxiliary
\* data and a witness set and a transaction that has neither
C9_Witness ==
    /\ pc = "collect_shelley_tx_records"
    /\ result = "ok"
    /\ config.include_block_details
    /\ IsSome(record)
    /\ \E i \in 0..(NumTxs - 1) : AuxDataPresent(i) /\ WitnessSetPresent(i)
    /\ \E i \in 0..(NumTxs - 1) :
          /\ ~AuxDataPresent(i) /\ ~WitnessSetPresent(i)
          /\ output[i + 1].size = BodyAt(i).raw_cbor_len + 2 + 1

(***************************************************************************)
(* C10: when a regular output or the collateral-return output of a Babbage *)
(* transaction has malformed address bytes, to_babbage_transaction_record  *)
(* returns an error to its caller: it does not panic and returns no        *)
(* record, and the conversion of the block ends with that error.           *)
(***************************************************************************)
Malformed(out) == AddressFromBytes(out.address).status # "ok"

HasMalformedAddress(body) ==
    \/ \E k \in 1..Len(body.outputs) : Malformed(body.outputs[k])
    \/ IsSome(body.collateral_return) /\ Malformed(Unwrap(body.collateral_return))

C10_MalformedAddressIsError ==
    (pc = "collect_babbage_tx_records" /\ config.include_block_details) =>
        \A i \in 0..(NumTxs - 1) :
            HasMalformedAddress(BodyAt(i)) =>
                /\ idx <= i
                /\ idx = i => result \in {"running", "err"}
                /\ record = None

(***************************************************************************)
(* C11: the conversion of a block is all-or-nothing.  With block details   *)
(* on it either returns a record whose transaction list has the converted  *)
(* record of every transaction of the block, in block order, or it returns *)
(* an error and no record; a collector holds one record per transaction    *)
(* converted so far and never returns a list cut at a failing transaction. *)
(***************************************************************************)
Babbage == pc = "collect_babbage_tx_records"

\* the conversion of the transaction at position i by the converter that runs
TxRecordAt(i) ==
    IF Babbage THEN BabbageTxRecordAt(config, block, i) ELSE ShelleyTxRecordAt(config, block, i)

FullyCollected ==
    /\ Len(output) = NumTxs
    /\ \A k \in 1..NumTxs : TxRecordAt(k - 1).status = "ok" /\ output[k] = TxRecordAt(k - 1).val

C11_AllOrNothing ==
    /\ Len(output) = idx
    /\ result # "running" =>
          \/ /\ result = "ok"
             /\ IsSome(record)
             /\ config.include_block_details =>
                   FullyCollected /\ Unwrap(record).transactions = Some(output)
             /\ ~config.include_block_details => Unwrap(record).transactions = None
          \/ /\ result = "err"
             /\ record = None

(***************************************************************************)
(* C12: when a conversion fails during the crawl of a block, the crawl     *)
(* returns that failure and emits nothing more for the block: no event of  *)
(* the failing or of a later transaction, no BlockEnd; the events emitted  *)
(* before the failure stay in the stream, in their order.                  *)
(***************************************************************************)
\* the positions of the transactions whose conversion does not succeed
FailingTxs == {i \in 0..(NumTxs - 1) : BabbageTxRecordAt(config, block, i).status # "ok"}

FirstFailingTx == CHOOSE i \in FailingTxs : \A j \in FailingTxs : i <= j

StreamOnlyGrows == [][IsPrefix(output, output')]_vars

StoppedAtFailure ==
    (pc = "done" /\ FailingTxs # {}) =>
        /\ result = "err"
        /\ \A p \in 1..Len(output) :
              /\ EventKind(output[p]) # "BlockEnd"
              /\ output[p].context.tx_idx # None
                    => Unwrap(output[p].context.tx_idx) < FirstFailingTx
        /\ config.include_block_details => output = <<>>
        /\ ~config.include_block_details =>
              /\ idx = FirstFailingTx
              /\ \A i \in 0..(FirstFailingTx - 1) : EventsOfTx(i) # <<>>

C12_FailureStopsCrawl == []StoppedAtFailure /\ StreamOnlyGrows

(***************************************************************************)
(* C13: the detail switches do not change the outcome.  For a given block  *)
(* the crawl ends in success, in an error or in a panic alike under every  *)
(* combination of include_block_details, include_transaction_details and   *)
(* include_block_cbor, and when it fails the kinds of the events emitted   *)
(* before the failure, in their order, are the same under every            *)
(* combination.  The crawl is compared with the crawl of the same block    *)
(* with the three switches off.                                            *)
(***************************************************************************)
SwitchesOff ==
    [config EXCEPT !.include_block_details = FALSE,
                   !.include_transaction_details = FALSE,
                   !.include_block_cbor = FALSE]

\* the crawl of transaction i with the switches c
TxCrawl(c, i) ==
    crawl_babbage_transaction(DefaultContext, c, BodyAt(i), TxHashHex(BodyAt(i)),
                              FindAuxData(block, i), GetWitnessSet(block, i))

FailingCrawls(c) == {i \in 0..(NumTxs - 1) : TxCrawl(c, i).status # "ok"}

FirstFailingCrawl(c) == CHOOSE i \in FailingCrawls(c) : \A j \in FailingCrawls(c) : i <= j

\* how the crawl of the block ends with the switches c, block details off
OutcomeOf(c) ==
    IF FailingCrawls(c) = {} THEN "ok" ELSE TxCrawl(c, FirstFailingCrawl(c)).status

KindsOf(evs) == MapSeq(evs, EventKind)

\* the kinds emitted up to the failure with the switches c, block details off
KindsBeforeFailure(c) ==
    <<"Block">>
    \o Flatten([i \in 1..FirstFailingCrawl(c) |-> KindsOf(TxCrawl(c, i - 1).events)])
    \o KindsOf(TxCrawl(c, FirstFailingCrawl(c)).events)

C13_SwitchesKeepOutcome ==
    pc = "done" =>
        /\ result = OutcomeOf(SwitchesOff)
        /\ result # "ok" => KindsOf(output) = KindsBeforeFailure(SwitchesOff)

(***************************************************************************)
(* C14: no switch enables another.  In every block record cbor_hex is      *)
(* present exactly when include_block_cbor is set and the nested           *)
(* transaction list exactly when include_block_details is set, whatever    *)
(* the other switches; the transaction records nested in a block record    *)
(* carry the detail bundle exactly when include_transaction_details is     *)
(* set.                                                                    *)
(***************************************************************************)
DetailFields ==
    {"required_signers", "update", "metadata", "inputs", "outputs", "collateral_inputs",
     "collateral_output", "certs", "mint", "vkey_witnesses", "native_witnesses",
     "plutus_witnesses", "plutus_redeemers", "plutus_data", "withdrawals"}

HasDetailBundle(tx) == IsSome(tx.inputs) /\ IsSome(tx.outputs)

NoDetail(tx) == \A f \in DetailFields : tx[f] = None

C14_SwitchesIndependent ==
    IsSome(record) =>
        LET r == Unwrap(record)
        IN  /\ IsSome(r.cbor_hex) <=> config.include_block_cbor
            /\ IsSome(r.transactions) <=> config.include_block_details
            /\ IsSome(r.transactions) =>
                  \A k \in 1..Len(Unwrap(r.transactions)) :
                      IF config.include_transaction_details
                      THEN HasDetailBundle(Unwrap(r.transactions)[k])
                      ELSE NoDetail(Unwrap(r.transactions)[k])

\* a block record with its transaction list and without the block bytes,
\* whose transaction records have no details
C14_Witness ==
    /\ IsSome(record)
    /\ config.include_block_details
    /\ ~config.include_block_cbor
    /\ ~config.include_transaction_details
    /\ NumTxs >= 1
    /\ Unwrap(record).cbor_hex = None
    /\ Len(Unwrap(Unwrap(record).transactions)) = NumTxs
    /\ NoDetail(Unwrap(Unwrap(record).transactions)[1])

(***************************************************************************)
(* C15: in a successful crawl every transaction has a TransactionEnd event *)
(* exactly when include_transaction_end_events is set, and it is then the  *)
(* last event of the transaction; the stream has a BlockEnd event exactly  *)
(* when include_block_end_events is set; and the events that are not end   *)
(* events are those of the crawl of the same block with both switches off. *)
(***************************************************************************)
EndKinds == {"TransactionEnd", "BlockEnd"}

NonEndEvents(evs) == SelectSeq(evs, LAMBDA e : EventKind(e) \notin EndKinds)

EndSwitchesOff ==
    [config EXCEPT !.include_transaction_end_events = FALSE,
                   !.include_block_end_events = FALSE]

\* the writer crawl_babbage_block makes for transaction i
TxWriter(i) ==
    child_writer(context, [DefaultContext EXCEPT !.tx_idx  = Some(i),
                                                 !.tx_hash = Some(TxHashHex(BodyAt(i)))])

\* the stream of the successful crawl of the block with the switches c
StreamOf(c) ==
    append(context, [kind   |-> "Block",
                     record |-> to_babbage_block_record(c, block, OriginalHash(block.header),
                                                        block.cbor).val]).events
    \o Flatten([i \in 1..NumTxs |->
                  crawl_babbage_transaction(TxWriter(i - 1), c, BodyAt(i - 1),
                      TxHashHex(BodyAt(i - 1)), FindAuxData(block, i - 1),
                      GetWitnessSet(block, i - 1)).events])

C15_EndEvents ==
    (pc = "done" /\ result = "ok") =>
        /\ \A i \in 0..(NumTxs - 1) :
              LET evs == EventsOfTx(i)
              IN  /\ Len(OfKinds(evs, {"TransactionEnd"}))
                        = IF config.include_transaction_end_events THEN 1 ELSE 0
                  /\ config.include_transaction_end_events =>
                        EventKind(evs[Len(evs)]) = "TransactionEnd"
        /\ Len(OfKinds(output, {"BlockEnd"})) = IF config.include_block_end_events THEN 1 ELSE 0
        /\ \A p \in 1..Len(output) :
              EventKind(output[p]) = "TransactionEnd" => output[p].context.tx_idx # None
        /\ NonEndEvents(output) = StreamOf(EndSwitchesOff)

\* a successful crawl of two transactions with BlockEnd and without
\* TransactionEnd events
C15_Witness ==
    /\ pc = "done"
    /\ result = "ok"
    /\ NumTxs = 2
    /\ config.include_block_end_events
    /\ ~config.include_transaction_end_events
    /\ EventKind(output[Len(output)]) = "BlockEnd"
    /\ OfKinds(output, {"TransactionEnd"}) = <<>>

(***************************************************************************)
(* C16: an end event carries the record of its start event.  Every         *)
(* TransactionEnd event carries the record of the Transaction event of the *)
(* same transaction, and every BlockEnd event the record of the Block      *)
(* event of the crawl.                                                     *)
(***************************************************************************)
C16_EndCarriesSameRecord ==
    \A p \in 1..Len(output) :
        /\ EventKind(output[p]) = "TransactionEnd" =>
              /\ output[p].context.tx_idx # None
              /\ RecordsOfKind(EventsOfTx(Unwrap(output[p].context.tx_idx)), "Transaction")
                    = <<output[p].data.record>>
        /\ EventKind(output[p]) = "BlockEnd" =>
              RecordsOfKind(output, "Block") = <<output[p].data.record>>

\* a finished crawl with both end events, of a block record that has its
\* transaction list and a transaction record that has its details
C16_Witness ==
    /\ pc = "done"
    /\ result = "ok"
    /\ config.include_block_details
    /\ config.include_transaction_details
    /\ NumTxs >= 1
    /\ OfKinds(output, {"TransactionEnd"}) # <<>>
    /\ EventKind(output[Len(output)]) = "BlockEnd"
    /\ IsSome(output[Len(output)].data.record.transactions)

(***************************************************************************)
(* C17: the counts of a transaction record do not depend on                *)
(* include_transaction_details.  The count fields have the values they     *)
(* have in the record converted with the switch the other way; with the    *)
(* switch off every detail field is absent; with it on inputs and outputs  *)
(* are present and as long as input_count and output_count, and certs,     *)
(* mint and required_signers, when present, are as long as their counts.   *)
(***************************************************************************)
CountFields ==
    {"input_count", "output_count", "certificate_count", "mint_count",
     "required_signers_count", "collateral_input_count", "has_collateral_output",
     "total_output", "size"}

DetailsFlipped == [config EXCEPT !.include_transaction_details = ~@]

\* the conversion of the transaction at position i with the switches c
TxRecordWith(c, i) ==
    IF Babbage THEN BabbageTxRecordAt(c, block, i) ELSE ShelleyTxRecordAt(c, block, i)

LengthIs(field, count) == IsSome(field) => Len(Unwrap(field)) = count

C17_CountsWithoutDetails ==
    \A k \in 1..Len(output) :
        LET tx    == output[k]
            other == TxRecordWith(DetailsFlipped, k - 1)
        IN  /\ other.status = "ok" => \A f \in CountFields : other.val[f] = tx[f]
            /\ tx.input_count = Len(BodyAt(k - 1).inputs)
            /\ tx.output_count = Len(BodyAt(k - 1).outputs)
            /\ ~config.include_transaction_details => NoDetail(tx)
            /\ config.include_transaction_details =>
                  /\ IsSome(tx.inputs) /\ Len(Unwrap(tx.inputs)) = tx.input_count
                  /\ IsSome(tx.outputs) /\ Len(Unwrap(tx.outputs)) = tx.output_count
                  /\ LengthIs(tx.certs, tx.certificate_count)
                  /\ LengthIs(tx.mint, tx.mint_count)
                  /\ LengthIs(tx.required_signers, tx.required_signers_count)

\* a record without details of a transaction that has mints and
\* certificates, whose conversion with details succeeds
C17_Witness ==
    /\ ~config.include_transaction_details
    /\ Len(output) >= 1
    /\ output[1].mint_count >= 1
    /\ output[1].certificate_count >= 1
    /\ output[1].mint = None
    /\ TxRecordWith(DetailsFlipped, 0).status = "ok"
    /\ IsSome(TxRecordWith(DetailsFlipped, 0).val.mint)

(***************************************************************************)
(* C18: collateral_input_count is the number of collateral inputs.  In the *)
(* record of every crawled Babbage transaction it equals the number of     *)
(* collateral inputs of the body (0 when the body has no collateral        *)
(* field), which is the number of Collateral events emitted for the        *)
(* transaction and, with details, the length of collateral_inputs.         *)
(***************************************************************************)
CollateralInputsOf(i) == OptSeq(BodyAt(i).collateral)

C18_CollateralInputCount ==
    \A i \in 0..(NumTxs - 1) :
        Completed(i) =>
            \A k \in 1..Len(RecordsOfKind(EventsOfTx(i), "Transaction")) :
                LET tx == RecordsOfKind(EventsOfTx(i), "Transaction")[k]
                IN  /\ tx.collateral_input_count = Len(CollateralInputsOf(i))
                    /\ tx.collateral_input_count = Len(OfKinds(EventsOfTx(i), {"Collateral"}))
                    /\ LengthIs(tx.collateral_inputs, tx.collateral_input_count)

(***************************************************************************)
(* C19: the block record counts and nests the transactions of the block.   *)
(* tx_count is the number of transaction bodies under every switch         *)
(* combination; with block details off there is no nested list; with      *)
(* block details on the list has tx_count records, and its i-th record is  *)
(* the conversion of the i-th body with the auxiliary data keyed i and the *)
(* witness set at position i, the record the crawl puts in the             *)
(* Transaction event of position i.                                        *)
(***************************************************************************)
\* the nested record at position i is made from body i, the auxiliary data
\* keyed i and the witness set at position i
PairedAt(tx, i) ==
    /\ tx.hash = TxHashHex(BodyAt(i))
    /\ tx.input_count = Len(BodyAt(i).inputs)
    /\ tx.size = ExpectedSize(i)
    /\ config.include_transaction_details =>
          /\ IsSome(tx.metadata) <=> AuxDataPresent(i)
          /\ IsSome(tx.vkey_witnesses) <=> WitnessSetPresent(i)

C19_BlockRecordTransactions ==
    IsSome(record) =>
        LET r == Unwrap(record)
        IN  /\ RecordsOfKind(output, "Block") = <<r>>
            /\ r.tx_count = NumTxs
            /\ ~config.include_block_details => r.transactions = None
            /\ config.include_block_details =>
                  /\ IsSome(r.transactions)
                  /\ Len(Unwrap(r.transactions)) = r.tx_count
                  /\ \A i \in 0..(NumTxs - 1) :
                        /\ PairedAt(Unwrap(r.transactions)[i + 1], i)
                        /\ Completed(i) =>
                              RecordsOfKind(EventsOfTx(i), "Transaction")
                                  = <<Unwrap(r.transactions)[i + 1]>>

\* a crawled block of two transactions with details, the second of which
\* alone has auxiliary data
C19_Witness ==
    /\ pc = "done"
    /\ result = "ok"
    /\ config.include_block_details
    /\ config.include_transaction_details
    /\ NumTxs = 2
    /\ ~AuxDataPresent(0)
    /\ AuxDataPresent(1)
    /\ Unwrap(record).tx_count = 2
    /\ Unwrap(Unwrap(record).transactions)[1].metadata = None
    /\ IsSome(Unwrap(Unwrap(record).transactions)[2].metadata)

(***************************************************************************)
(* C20: a batch collector converts its collection element by element.  On  *)
(* success the list it returns is as long as the collection and its i-th   *)
(* record is the conversion of the i-th element: nothing is reordered,     *)
(* dropped or merged with an equal element; an empty or absent collection  *)
(* gives the empty list and no error.  The elements of a mint are its      *)
(* (policy, asset, quantity) entries in their nested order, those of       *)
(* auxiliary data the entries of its metadata.                             *)
(***************************************************************************)
MintEntries ==
    Flatten([p \in 1..Len(block) |->
                [a \in 1..Len(block[p].assets) |->
                    <<block[p].policy, block[p].assets[a].asset, block[p].assets[a].amount>>]])

\* the elements of the collection handed to the collector, in their order
Elements ==
    CASE pc \in OptionCollectors          -> OptSeq(block)
      [] pc = "collect_metadata_records"  -> OptSeq(AuxMetadata(block))
      [] pc = "collect_mint_records"      -> MintEntries
      [] OTHER                            -> block

\* the conversion of one element by the converter the collector applies
ConversionOf(e) ==
    CASE pc = "collect_input_records"            -> Ok(to_transaction_input_record(e))
      [] pc = "collect_legacy_output_records"    -> to_legacy_output_record(e)
      [] pc = "collect_any_output_records"       ->
            IF e.variant = "Legacy" THEN to_legacy_output_record(e)
            ELSE to_post_alonzo_output_record(e)
      [] pc = "collect_mint_records"             -> Ok(to_mint_record(e[1], e[2], e[3]))
      [] pc = "collect_certificate_records"      -> Ok(to_certificate_record(e))
      [] pc = "collect_withdrawal_records"       -> Ok(WithdrawalRecord(e))
      [] pc = "collect_metadata_records"         -> to_metadata_record(e[1], e[2])
      [] pc = "collect_required_signers_records" -> Ok(ToHex(e))
      [] pc \in {"collect_vkey_witness_records", "collect_vkey_witness_records_babbage"}
                                                 -> to_vkey_witness_record(e)
      [] pc \in {"collect_native_witness_records", "collect_native_witness_records_babbage"}
                                                 -> to_native_witness_record(e)
      [] pc \in {"collect_plutus_v1_witness_records",
                 "collect_plutus_v1_witness_records_babbage"}
                                                 -> to_plutus_v1_witness_record(e)
      [] pc \in {"collect_plutus_redeemer_records", "collect_plutus_redeemer_records_2"}
                                                 -> to_plutus_redeemer_record(e)
      [] pc \in {"collect_witness_plutus_datum_records",
                 "collect_witness_plutus_datum_records_babbage"}
                                                 -> to_plutus_datum_record(e)

C20_CollectorsKeepOrder ==
    result # "running" =>
        /\ result = "ok" =>
              /\ Len(output) = Len(Elements)
              /\ \A i \in 1..Len(output) : ConversionOf(Elements[i]) = Ok(output[i])
        /\ Elements = <<>> => result = "ok" /\ output = <<>>

\* the collected records of two equal inputs
C20_Witness ==
    /\ pc = "collect_input_records"
    /\ result = "ok"
    /\ Len(block) = 2
    /\ block[1] = block[2]
    /\ Len(output) = 2
    /\ output[1] = output[2]

(***************************************************************************)
(* C21: the assets and the amount of an output record.  The asset list of  *)
(* the record of an output is empty when the value of the output is        *)
(* coin-only, and otherwise has one entry per (policy, asset name) pair of *)
(* the value, policy by policy and asset by asset; the amount of the       *)
(* record is the coin of the value in both cases.                          *)
(***************************************************************************)
OutputCollectors == {"collect_any_output_records", "collect_legacy_output_records"}

\* the number of assets of the policies before policy p
AssetsBefore(policies, p) == SumSeq([q \in 1..(p - 1) |-> Len(policies[q].assets)])

AssetsOfValue(assets, value) ==
    IF value.tag = "Coin"
    THEN assets = <<>>
    ELSE /\ Len(assets) = AssetsBefore(value.policies, Len(value.policies) + 1)
         /\ \A p \in 1..Len(value.policies) :
               \A a \in 1..Len(value.policies[p].assets) :
                   LET entry == assets[AssetsBefore(value.policies, p) + a]
                   IN  /\ entry.policy = ToHex(value.policies[p].policy)
                       /\ entry.asset = ToHex(value.policies[p].assets[a].asset.bytes)
                       /\ entry.amount = value.policies[p].assets[a].amount

C21_AssetsOfOutput ==
    (pc \in OutputCollectors /\ result = "ok") =>
        \A i \in 1..Len(output) :
            /\ IsSome(output[i].assets)
            /\ AssetsOfValue(Unwrap(output[i].assets), OutputValue(block[i]))
            /\ output[i].amount = OutputValue(block[i]).coin

\* the records of a coin-only output and of an output with three assets of
\* two policies
C21_Witness ==
    /\ pc = "collect_any_output_records"
    /\ result = "ok"
    /\ Len(output) = 2
    /\ OutputValue(block[1]).tag = "Coin"
    /\ output[1].assets = Some(<<>>)
    /\ OutputValue(block[2]).tag = "Multiasset"
    /\ Len(Unwrap(output[2].assets)) = 3
    /\ output[2].amount = OutputValue(block[2]).coin

(***************************************************************************)
(* C22: the record of a reward movement.  Exactly one of from_reserves and *)
(* from_treasury is true and it names the source of the certificate;       *)
(* exactly one of to_stake_credentials and to_other_pot is present and it  *)
(* holds the target of the certificate.  A movement from the reserves to   *)
(* the other accounting pot gives from_reserves, no from_treasury, no      *)
(* to_stake_credentials and to_other_pot with the value.                   *)
(***************************************************************************)
MoveRecordOf(certificate, r) ==
    /\ r.from_reserves # r.from_treasury
    /\ r.from_reserves <=> certificate.source = "Reserves"
    /\ r.from_treasury <=> certificate.source = "Treasury"
    /\ IsSome(r.to_stake_credentials) # IsSome(r.to_other_pot)
    /\ certificate.target.tag = "OtherAccountingPot" =>
          r.to_other_pot = Some(certificate.target.coin)
    /\ certificate.target.tag = "StakeCredentials" =>
          /\ IsSome(r.to_stake_credentials)
          /\ Len(Unwrap(r.to_stake_credentials)) = Len(certificate.target.creds)
          /\ \A k \in 1..Len(certificate.target.creds) :
                /\ Unwrap(r.to_stake_credentials)[k][1].hash
                      = ToHex(certificate.target.creds[k][1].hash)
                /\ Unwrap(r.to_stake_credentials)[k][2] = certificate.target.creds[k][2]
    /\ (certificate.source = "Reserves" /\ certificate.target.tag = "OtherAccountingPot") =>
          r = [from_reserves |-> TRUE, from_treasury |-> FALSE,
               to_stake_credentials |-> None, to_other_pot |-> Some(certificate.target.coin)]

C22_RewardMovement ==
    (pc = "collect_certificate_records" /\ result = "ok") =>
        \A i \in 1..Len(output) :
            block[i].tag = "MoveInstantaneousRewardsCert" =>
                /\ output[i].kind = "MoveInstantaneousRewardsCert"
                /\ MoveRecordOf(block[i], output[i].record)

\* the records of a movement from the reserves to the other pot and of a
\* movement from the treasury to stake credentials
C22_Witness ==
    /\ pc = "collect_certificate_records"
    /\ result = "ok"
    /\ Len(output) = 2
    /\ block[1].tag = "MoveInstantaneousRewardsCert"
    /\ block[1].source = "Reserves"
    /\ block[1].target.tag = "OtherAccountingPot"
    /\ output[1].record.to_other_pot = Some(42)
    /\ block[2].tag = "MoveInstantaneousRewardsCert"
    /\ block[2].source = "Treasury"
    /\ IsSome(output[2].record.to_stake_credentials)

(***************************************************************************)
(* C23: conversion is deterministic.  Every call of a block converter on   *)
(* the same block with the same switches returns what the first call       *)
(* returned, the nested transaction records included: the same record,     *)
(* field by field, or the same failure.                                    *)
(***************************************************************************)
C23_Deterministic ==
    /\ Len(output) = idx
    /\ \A i \in 1..Len(output) : output[i] = output[1]
    /\ IsSome(record) => output[Len(output)] = Ok(Unwrap(record))

\* two calls that have returned a record with two nested transaction
\* records that carry their details
C23_Witness ==
    /\ idx = 2
    /\ result = "ok"
    /\ config.include_block_details
    /\ config.include_transaction_details
    /\ NumTxs = 2
    /\ output[1].status = "ok"
    /\ Len(Unwrap(output[2].val.transactions)) = 2
    /\ output[2].val = Unwrap(record)

(***************************************************************************)
(* C24: the keys of a metadata map.  An integer key is rendered as its     *)
(* decimal string, a byte-string key as lowercase hex, a text key as       *)
(* itself and a key of any other shape as the empty string; the shape of a *)
(* key never makes the conversion of the map fail.                         *)
(***************************************************************************)
KeyString(key) ==
    IF key.tag = "Int" THEN <<"decimal", key.v>>
    ELSE IF key.tag = "Bytes" THEN <<"hex", key.v>>
    ELSE IF key.tag = "Text" THEN <<"text", key.v>>
    ELSE <<"text", "">>

\* the metadata entries handed to collect_metadata_records
MetadataOf(aux_data) == OptSeq(AuxMetadata(aux_data))

C24_MapKeys ==
    (pc = "collect_metadata_records" /\ result # "running") =>
        /\ result = "ok"
        /\ Len(output) = Len(MetadataOf(block))
        /\ \A i \in 1..Len(output) :
              LET value == MetadataOf(block)[i][2]
              IN  value.tag = "Map" =>
                    /\ output[i].content[1] = "MapJson"
                    /\ output[i].content[2][1] = "json_map"
                    /\ DOMAIN output[i].content[2][2]
                          = {KeyString(value.entries[k][1]) : k \in 1..Len(value.entries)}

\* the record of a map with an integer, a byte-string, a text, a map and an
\* array key
C24_Witness ==
    /\ pc = "collect_metadata_records"
    /\ result = "ok"
    /\ Len(output) >= 1
    /\ MetadataOf(block)[1] = KeyedMetadata
    /\ DOMAIN output[1].content[2][2]
          = {<<"decimal", 7>>, <<"hex", 8>>, <<"text", "t">>, <<"text", "">>}

(***************************************************************************)
(* C25: with block details off, a transaction with a regular output of     *)
(* malformed address bytes has no event at all, not even its Transaction   *)
(* event: its record is built before anything is emitted for it.  When the *)
(* crawl fails at it, the Block event and all the events of the            *)
(* transactions before it are in the stream.  So a transaction that has    *)
(* its Transaction event has no regular output that fails to decode.       *)
(***************************************************************************)
MalformedOutput(i) == \E k \in 1..Len(BodyAt(i).outputs) : Malformed(BodyAt(i).outputs[k])

\* all the events of the crawl of transaction j
CrawledEvents(j) ==
    crawl_babbage_transaction(TxWriter(j), config, BodyAt(j), TxHashHex(BodyAt(j)),
                              FindAuxData(block, j), GetWitnessSet(block, j)).events

C25_NoEventOfMalformedTx ==
    ~config.include_block_details =>
        \A i \in 0..(NumTxs - 1) :
            /\ MalformedOutput(i) =>
                  /\ EventsOfTx(i) = <<>>
                  /\ idx <= i
                  /\ (idx = i /\ pc = "done") =>
                        /\ result = "err"
                        /\ output # <<>> /\ EventKind(output[1]) = "Block"
                        /\ \A j \in 0..(i - 1) :
                              EventsOfTx(j) # <<>> /\ EventsOfTx(j) = CrawledEvents(j)
            /\ OfKinds(EventsOfTx(i), {"Transaction"}) # <<>> => ~MalformedOutput(i)

\* a crawl that has failed at the second transaction, after the events of
\* the first
C25_Witness ==
    /\ ~config.include_block_details
    /\ pc = "done"
    /\ result = "err"
    /\ NumTxs = 2
    /\ idx = 1
    /\ MalformedOutput(1)
    /\ EventsOfTx(0) # <<>>
    /\ EventsOfTx(1) = <<>>
    /\ EventKind(output[1]) = "Block"

(***************************************************************************)
(* Claims about the S3/SQS sink.                                           *)
(***************************************************************************)
Requests == {i \in 1..Len(output) : output[i].op \in {"put_object", "send_message"}}

Failed(i) == output[i].op \in {"put_object", "send_message"} /\ ~output[i].ok

\* the request at i is the successful put of the object named key
StoredAt(i, key) ==
    /\ i \in 1..Len(output)
    /\ output[i].op = "put_object"
    /\ output[i].ok
    /\ output[i].key = key

\* C26: a message is sent to SQS only right after the successful put of the
\* object it names; nothing follows a failed put; a failed send of the
\* message makes send_block return the error and is followed by no further
\* request, so the object stored for it stays.
C26_MessageAfterStoredObject ==
    /\ \A i \in 1..Len(output) :
          output[i].op = "send_message" => StoredAt(i - 1, output[i].key)
    /\ \A i \in 1..Len(output) :
          Failed(i) => i = Len(output) /\ result = "err" /\ pc = "done"

C26_Witness ==
    /\ Len(output) >= 2
    /\ output[Len(output)].op = "send_message"
    /\ ~output[Len(output)].ok
    /\ StoredAt(Len(output) - 1, output[Len(output)].key)
    /\ result = "err"

\* the events that the loop has reported as progress, in the order of the reports
Reported == MapSeq(SelectSeq(output, LAMBDA e : e.op = "track_sink_progress"), LAMBDA e : e.body)

\* the Block events among the first n events of the stream
BlocksReceived(n) == SelectSeq(SubSeq(block, 1, n), LAMBDA e : EventKind(e) = "Block")

KeyOfEvent(e) == define_obj_key(config.s3_prefix, config.s3_naming, e.data.record)

\* C27: progress is reported only for a Block event, right after the
\* successful put and the successful send of the message of that block; the
\* reported events are the Block events taken from the stream, in their
\* order; and the put of a block is sent only when every request before it
\* has succeeded and the progress of the block before it has been reported.
C27_ProgressAfterBothSends ==
    /\ \A i \in 1..Len(output) :
          output[i].op = "track_sink_progress" =>
             /\ EventKind(output[i].body) = "Block"
             /\ i >= 3
             /\ StoredAt(i - 2, KeyOfEvent(output[i].body))
             /\ output[i - 1].op = "send_message"
             /\ output[i - 1].ok
             /\ output[i - 1].key = KeyOfEvent(output[i].body)
    /\ Reported = BlocksReceived(idx)
    /\ \A i \in 2..Len(output) :
          output[i].op = "put_object" => output[i - 1].op = "track_sink_progress"
    /\ Len(output) > 0 => output[1].op = "put_object"

C27_Witness ==
    /\ Len(Reported) = 2
    /\ Reported[1] # Reported[2]
    /\ \E i \in 1..idx : EventKind(block[i]) \in {"BlockEnd", "RollBack"}

\* C28: the loop returns as soon as a request of a block has failed: the
\* failed request is the last thing the sink does, whatever events are left
\* in the stream, and nothing happens after the return; the loop returns Ok
\* only when it has taken every event of the stream.
C28_StopsAtFirstFailure ==
    /\ [](\A i \in 1..Len(output) : Failed(i) => i = Len(output) /\ result = "err")
    /\ [](result = "err" => pc = "done" /\ Len(output) > 0 /\ Failed(Len(output)))
    /\ [](result = "ok" => pc = "done" /\ idx = Len(block))
    /\ [][result = "err" => UNCHANGED vars]_vars

C28_Witness ==
    /\ result = "err"
    /\ idx + 1 < Len(block)
    /\ EventKind(block[idx + 2]) = "Block"
    /\ Len(Reported) > 0

\* the key starts with the prefix and ends with the hash of the record
PrefixThenHash(key, prefix, r) ==
    /\ Len(key) >= 2
    /\ key[1] = prefix
    /\ key[Len(key)] = r.hash

\* C29: under every naming policy the key of a stored block is the prefix
\* followed by a name that ends with the hash of the block, and two blocks
\* with different hashes are stored under different keys, so that the put of
\* one block never replaces the object of another.
C29_KeyEndsWithHash ==
    /\ \A i \in 1..Len(output) :
          (output[i].op = "put_object" /\ IsSome(record) /\ i = Len(output)) =>
             PrefixThenHash(output[i].key, config.s3_prefix, Unwrap(record))
    /\ \A i, j \in 1..Len(Reported) :
          Reported[i].data.record.hash # Reported[j].data.record.hash =>
             KeyOfEvent(Reported[i]) # KeyOfEvent(Reported[j])

\* the same with the BlockNumber policy left out
C29_KeyEndsWithHashButByNumber ==
    config.s3_naming # "BlockNumber" => C29_KeyEndsWithHash

\* two reported blocks with different hashes whose objects have the same key
C29_Overwritten ==
    \E i, j \in 1..Len(Reported) :
       /\ Reported[i].data.record.hash # Reported[j].data.record.hash
       /\ KeyOfEvent(Reported[i]) = KeyOfEvent(Reported[j])

WithoutCbor(e) == EventKind(e) = "Block" /\ e.data.record.cbor_hex = None

\* the events of the stream before the first Block event without cbor_hex
BeforeMissingCbor ==
    {i \in 1..Len(block) : \A j \in 1..i : ~WithoutCbor(block[j])}

\* C30: a Block record without cbor_hex makes the send panic, under every
\* content type, before any request is sent for it: the sink has stored no
\* object, sent no message and reported no progress for that block or for
\* any event after it, and the loop never takes an event after it.
C30_PanicWithoutCbor ==
    /\ idx \in BeforeMissingCbor \cup {0}
    /\ \A i \in 1..Len(output) :
          \E j \in BeforeMissingCbor :
             /\ EventKind(block[j]) = "Block"
             /\ output[i].op = "track_sink_progress" => output[i].body = block[j]
             /\ output[i].op # "track_sink_progress" => output[i].key = KeyOfEvent(block[j])
    /\ Cardinality(Requests) <= 2 * Cardinality({j \in BeforeMissingCbor : EventKind(block[j]) = "Block"})
    /\ (pc = "done" /\ IsSome(record) /\ Unwrap(record).cbor_hex = None) => result = "panic"
    /\ result = "panic" =>
          /\ pc = "done"
          /\ WithoutCbor(block[idx + 1])
          /\ Cardinality(Requests) = 2 * idx - 2 * Cardinality({j \in 1..idx : EventKind(block[j]) # "Block"})

C30_Witness ==
    /\ result = "panic"
    /\ config.s3_content = "Json"
    /\ Len(Reported) > 0
    /\ idx + 1 < Len(block)
    /\ EventKind(block[idx + 2]) = "Block"

================================================================================
